---- MODULE Spec2Model ----
(***************************************************************************)
(* State-machine model of the session orchestration layer of Claude       *)
(* Conductor: Session (src/core/session.ts), SessionManager               *)
(* (src/core/session-manager.ts), SessionStore (src/utils/store.ts) and   *)
(* the parts of DiscordAdapter (src/bridge/discord-adapter.ts) the core   *)
(* depends on.  Every `await` of the source is a suspension point: an     *)
(* async function is a coroutine whose position is a pc field, and one    *)
(* action runs the synchronous code between two suspension points.        *)
(*                                                                         *)
(* Line numbers in the comments are those of the files as stored:         *)
(*   session.ts          src/src/core/session.ts                           *)
(*   session-manager.ts  src/unnamed/part_002 (lines 13-279)               *)
(*   store.ts            src/unnamed/part_001                              *)
(*   discord-adapter.ts  src/unnamed/part_003                              *)
(*   config.ts           src/src/config.ts                                 *)
(*   chunker.ts          src/src/utils/chunker.ts                          *)
(***************************************************************************)
EXTENDS Integers, Sequences, FiniteSets, TLC

\* ------------------------------------------------------------------ bounds
MaxCalls == 2       \* createSession / resumeSession / endSession invocations
MaxCap == 2         \* largest configured maxConcurrentSessions
MaxMsgs == 2        \* operator messages sent (Spec)
MaxPerms == 1       \* canUseTool invocations (Spec)
MgrMaxMsgs == 1     \* operator messages routed (SpecMgr)
GateMaxPerms == 2   \* tool invocations (SpecGate)
GateMaxMsgs == 1    \* operator messages sent (SpecGate)
GateMaxClicks == 2  \* button clicks on approval requests (SpecGate)
ChunkTextLen == 7   \* longest text handed to chunkMessage (SpecChunk)
ChunkMaxLen == 6    \* largest maxLength handed to chunkMessage (SpecChunk)
ChunkMaxIter == 10  \* loop iterations of chunkMessage that are followed (SpecChunk)
ChunkLiveTextLen == 5  \* longest text handed to chunkMessage (SpecChunkLive)

\* ------------------------------------------------------------- value sets
Calls == 1..MaxCalls
Objs == 1..(MaxCalls + 1)     \* each call constructs at most one Session object
ChanIds == 1..(MaxCalls + 1)  \* each call creates at most one channel
NoObj == 0
PermIds == 1..(IF MaxPerms > GateMaxPerms THEN MaxPerms ELSE GateMaxPerms)
Names == {"a", "b", "A"}
Handles == {"h1", "h2"}
Tools == {"Read", "Bash"}
InitialPrompt == "p0"
EmptyString == ""
NoHandle == "undefined"
NoChan == 0

\* The text of the k-th operator message: texts are pairwise different so that
\* a lost, duplicated or reordered message shows.
MsgTexts == <<"m1", "m2", "m3", "m4", "m5">>
MsgText(k) == MsgTexts[k]

\* The text of the k-th inbound message that reaches no Session
DroppedTexts == <<"x1", "x2", "x3", "x4", "x5">>
DroppedText(k) == DroppedTexts[k]

\* session.ts:481  readOnlyTools
ReadOnlyTools == {"Read", "Glob", "Grep", "WebSearch", "WebFetch"}

VARIABLES
    config,             \* ConductorConfig (config.ts:33-45, overridable by conductor.json)
    lim,                \* what the environment of this run does:
                        \* [msgs, perms, handles, clicks]
    sess,               \* Session objects: Objs -> record (pc "none": not constructed)
    perms,              \* tool invocations of the Agent Service: PermIds -> record
    sessions,           \* SessionManager.sessions: Names -> Objs \cup {NoObj}
    store,              \* SessionStore.sessions: Names -> entry
    channelMap,         \* DiscordAdapter.channelMap: Names -> channel id
    reverseChannelMap,  \* DiscordAdapter.reverseChannelMap: channel id -> name
    guild,              \* channels of the category: channel id -> channel name
    pendingPermissions, \* DiscordAdapter.pendingPermissions: set of request ids
    reminders,          \* request ids whose reminder timer is armed
    clicks,             \* handleButton suspended on interaction.update: request id -> action
    calls,              \* manager method invocations: Calls -> record
    abortRun,           \* consecutive direct abort() calls on each object (capped at 2)
    dropped,            \* inbound operator messages that reached no Session, so far
    listed,             \* what the listSessions call of the last step returned
    chunker,            \* the locals of one chunkMessage invocation
    singleTurn,         \* the locals of one runSingleTurn invocation and what it
                        \* has sent to the channel
    unauthorized        \* interactions and messages of users other than
                        \* DISCORD_USER_ID received so far

vars == <<config, lim, sess, perms, sessions, store, channelMap, reverseChannelMap,
          guild, pendingPermissions, reminders, clicks, calls, abortRun, dropped,
          listed, chunker, singleTurn, unauthorized>>

sessionVars == <<sess, store>>
bridgeVars == <<channelMap, reverseChannelMap, guild>>
permVars == <<perms, pendingPermissions, reminders, clicks>>

\* listed when the last step was not a listSessions call
NotListed == <<>>

\* singleTurn while no runSingleTurn invocation is followed
NoTurn == [pc |-> "none", verbosity |-> "normal", stream |-> <<>>, content |-> <<>>,
           messageBuffer |-> <<>>, appended |-> 0, lastSendTime |-> 0,
           chunks |-> <<>>, call |-> 0, k |-> 0, ret |-> "none", sent |-> <<>>]

\* What every step but a direct abort(), a dropped message and listSessions
\* leaves alone or resets
Frame == /\ UNCHANGED <<config, lim, dropped, chunker, singleTurn, unauthorized>>
         /\ abortRun' = [o \in Objs |-> 0]
         /\ listed' = NotListed

\* ------------------------------------------------------------ chunkMessage
\* A string is the sequence of its characters.  One letter stands for the
\* word characters, the space and the newline for the whitespace, and the
\* backquote is written as a quote
Letter == "a"
Space == " "
Newline == "\n"
Tick == "'"
Alphabet == {Letter, Space, Newline, Tick}
WordChars == {Letter}          \* \w
Whitespace == {Space, Newline}  \* what trim() removes
Fence == <<Tick, Tick, Tick>>
Texts == UNION {[1..n -> Alphabet] : n \in 0..ChunkTextLen}
ShortTexts == UNION {[1..n -> Alphabet] : n \in 0..ChunkLiveTextLen}

NoChunking == [pc |-> "none", text |-> <<>>, maxLength |-> 1, remaining |-> <<>>,
               chunks |-> <<>>, inserted |-> 0, result |-> <<>>]

\* pat occurs in s at the 0-based index i
StartsAt(s, pat, i) ==
    /\ i >= 0 /\ i + Len(pat) <= Len(s)
    /\ \A k \in 1..Len(pat) : s[i + k] = pat[k]

\* s.lastIndexOf(pat, from): the last occurrence at an index <= from, or -1
LastIndexOf(s, pat, from) ==
    LET m == {i \in 0..from : StartsAt(s, pat, i)}
    IN IF m = {} THEN -1 ELSE CHOOSE i \in m : \A j \in m : j <= i

\* s.indexOf(pat, from): the first occurrence at an index >= from, or -1
IndexOf(s, pat, from) ==
    LET m == {i \in from..Len(s) : StartsAt(s, pat, i)}
    IN IF m = {} THEN -1 ELSE CHOOSE i \in m : \A j \in m : i <= j

\* s.slice(from, to) and s.slice(from), for 0 <= from
Slice(s, from, to) == SubSeq(s, from + 1, IF to > Len(s) THEN Len(s) ELSE to)
SliceFrom(s, from) == SubSeq(s, from + 1, Len(s))

\* (s.match(/```/g) || []).length: matches are found left to right and do
\* not overlap
RECURSIVE FencesFrom(_, _)
FencesFrom(s, i) ==
    IF i + 3 > Len(s) THEN 0
    ELSE IF StartsAt(s, Fence, i) THEN 1 + FencesFrom(s, i + 3)
    ELSE FencesFrom(s, i + 1)

\* s.match(/^(\w+)/): the word characters s starts with ("" without a match)
RECURSIVE LangTag(_)
LangTag(s) ==
    IF s = <<>> \/ Head(s) \notin WordChars THEN <<>>
    ELSE <<Head(s)>> \o LangTag(Tail(s))

\* c.trim().length > 0
NotBlank(c) == \E i \in 1..Len(c) : c[i] \notin Whitespace

\* x > maxLength * 0.3, for an integer x
PastThreshold(x, maxLength) == 10 * x > 3 * maxLength

\* chunker.ts:17-43  where the next chunk ends
SplitIndex(remaining, maxLength) ==
    LET codeBlockEnd == LastIndexOf(remaining, <<Newline>> \o Fence, maxLength)
        afterBlock == IndexOf(remaining, <<Newline>>, codeBlockEnd + 4)
        lastNewline == LastIndexOf(remaining, <<Newline>>, maxLength)
        lastSpace == LastIndexOf(remaining, <<Space>>, maxLength)
    IN IF PastThreshold(codeBlockEnd, maxLength)
       THEN IF afterBlock # -1 /\ afterBlock <= maxLength
            THEN afterBlock + 1
            ELSE codeBlockEnd
       ELSE IF PastThreshold(lastNewline, maxLength) THEN lastNewline + 1
       ELSE IF PastThreshold(lastSpace, maxLength) THEN lastSpace + 1
       ELSE maxLength

\* chunker.ts:65  the chunks that are returned
Filtered(chunks) == SelectSeq(chunks, LAMBDA c : NotBlank(c.s))

\* A chunk: its characters, how many of its first characters come from
\* reopening markers put in front of the remaining text, and how many of its
\* last characters are an appended closing marker
Chunk(s, ins, app) == [s |-> s, ins |-> ins, app |-> app]

\* chunker.ts:5-9  chunkMessage(text, maxLength) is entered
ChunkEnter ==
    /\ chunker.pc = "call"
    /\ IF Len(chunker.text) <= chunker.maxLength
       THEN chunker' = [chunker EXCEPT !.pc = "returned",
                                       !.result = <<Chunk(chunker.text, 0, 0)>>]
       ELSE chunker' = [chunker EXCEPT !.pc = "loop", !.remaining = chunker.text]
    /\ UNCHANGED <<config, lim, sess, perms, sessions, store, channelMap,
                   reverseChannelMap, guild, pendingPermissions, reminders, clicks,
                   calls, abortRun, dropped, listed, singleTurn, unauthorized>>

\* chunker.ts:11-65  one iteration of the loop; the iteration that ends the
\* loop is followed by the filter and the return
ChunkIterate ==
    /\ chunker.pc = "loop"
    /\ Len(chunker.chunks) < ChunkMaxIter
    /\ LET remaining == chunker.remaining
           maxLength == chunker.maxLength
           splitIndex == SplitIndex(remaining, maxLength)
           chunk == Slice(remaining, 0, splitIndex)
           rest == SliceFrom(remaining, splitIndex)
           ins == IF chunker.inserted < Len(chunk) THEN chunker.inserted ELSE Len(chunk)
           open == FencesFrom(chunk, 0) % 2 # 0
           lastOpen == LastIndexOf(chunk, Fence, Len(chunk))
           lang == LangTag(SliceFrom(chunk, lastOpen + 3))
           marker == Fence \o lang \o <<Newline>>
       IN IF Len(remaining) <= maxLength
          THEN LET all == Append(chunker.chunks, Chunk(remaining, chunker.inserted, 0))
               IN chunker' = [chunker EXCEPT !.pc = "returned", !.chunks = all,
                                             !.result = Filtered(all)]
          ELSE LET pushed == IF open THEN Chunk(chunk \o <<Newline>> \o Fence, ins, 4)
                                     ELSE Chunk(chunk, ins, 0)
                   all == Append(chunker.chunks, pushed)
                   next == IF open THEN marker \o rest ELSE rest
                   left == (chunker.inserted - ins) + (IF open THEN Len(marker) ELSE 0)
               IN IF Len(next) > 0
                  THEN chunker' = [chunker EXCEPT !.chunks = all, !.remaining = next,
                                                  !.inserted = left]
                  ELSE chunker' = [chunker EXCEPT !.pc = "returned", !.chunks = all,
                                                  !.remaining = next, !.inserted = left,
                                                  !.result = Filtered(all)]
    /\ UNCHANGED <<config, lim, sess, perms, sessions, store, channelMap,
                   reverseChannelMap, guild, pendingPermissions, reminders, clicks,
                   calls, abortRun, dropped, listed, singleTurn, unauthorized>>

\* ------------------------------------------------------------ SessionStore
NoEntry == [present |-> FALSE, status |-> "idle", sdkSessionId |-> NoHandle,
            channelId |-> NoChan, autoApprovedTools |-> {}]

\* session-manager.ts:64-75, 129-140  the SessionInfo a new Session is stored with
EntryFor(chan, handle) ==
    [present |-> TRUE, status |-> "working", sdkSessionId |-> handle,
     channelId |-> chan, autoApprovedTools |-> {}]

\* store.ts:58-61  set(session)
StoreSet(st, id, info) == [st EXCEPT ![id] = info]

\* store.ts:63-70  updateStatus(id, status): only an existing entry is written
StoreUpdateStatus(st, id, status) ==
    IF st[id].present THEN [st EXCEPT ![id].status = status] ELSE st

\* store.ts:72-75  delete(id)
StoreDelete(st, id) == [st EXCEPT ![id] = NoEntry]

\* session-manager.ts:94-100  onSdkSessionId callback
StoreSdkSessionId(st, id, h) ==
    IF st[id].present THEN [st EXCEPT ![id].sdkSessionId = h] ELSE st

\* ----------------------------------------------------------------- Session
\* session.ts:60-70 and the field initialisers of lines 37-53
NewSession(id, resumeHandle) ==
    [id |-> id, pc |-> "new", status |-> "idle", abortController |-> "null",
     sdkSessionId |-> NoHandle, resumeSessionId |-> resumeHandle,
     autoApprovedTools |-> {}, messageQueue |-> <<>>, messageResolver |-> FALSE,
     waitValue |-> <<>>, resolveCalls |-> 0, currentPrompt |-> InitialPrompt,
     isFirstTurn |-> TRUE, gotInit |-> FALSE, running |-> 0,
     skipPermissions |-> FALSE, allowedTools |-> {},
     sent |-> <<>>, issued |-> <<>>, caught |-> "none"]

NoSession == [NewSession("a", NoHandle) EXCEPT !.pc = "none"]

Aborted(o) == sess[o].abortController = "aborted"

\* Operator messages passed to sendMessage so far, over all Sessions
RECURSIVE SentUpTo(_)
SentUpTo(o) == IF o = 0 THEN 0 ELSE Len(sess[o].sent) + SentUpTo(o - 1)
SentCount == SentUpTo(MaxCalls + 1)

\* session.ts:84-87  setStatus: the field, then the onStatusChange callback
\* (session-manager.ts:90-92), which writes the store
SetStatus(s, status) == [s EXCEPT !.status = status]

\* session.ts:126-130  start(): a fresh AbortController, status working, and
\* the first bridge await
StartEffect(s) ==
    [SetStatus(s, "working") EXCEPT !.abortController = "live", !.pc = "start_upd"]

\* session.start(initialPrompt) called on a constructed Session
Start(o) ==
    /\ sess[o].pc = "new"
    /\ sess' = [sess EXCEPT ![o] = StartEffect(@)]
    /\ store' = StoreUpdateStatus(store, sess[o].id, "working")
    /\ Frame /\ UNCHANGED <<sessions, bridgeVars, permVars, calls>>

\* session.ts:133, 147-154  runConversation entered, head of the first iteration
StartResume(o) ==
    /\ sess[o].pc = "start_upd"
    /\ sess' = [sess EXCEPT ![o] = [SetStatus(@, "working") EXCEPT
                    !.currentPrompt = InitialPrompt, !.isFirstTurn = TRUE,
                    !.pc = "loop_upd"]]
    /\ store' = StoreUpdateStatus(store, sess[o].id, "working")
    /\ Frame /\ UNCHANGED <<sessions, bridgeVars, permVars, calls>>

ResumeOptionSeedFirst(s) ==
    IF s.resumeSessionId # NoHandle THEN s.resumeSessionId
    ELSE s.sdkSessionId

\* session.ts:198-203  the resume option of a turn
ResumeOption(s) ==
    IF s.sdkSessionId # NoHandle THEN s.sdkSessionId
    ELSE IF s.isFirstTurn /\ s.resumeSessionId # NoHandle THEN s.resumeSessionId
    ELSE NoHandle

\* session.ts:156, 182-221  runSingleTurn: query() is issued to the Agent Service
IssueTurn(s) ==
    [s EXCEPT !.pc = "turn", !.gotInit = FALSE, !.running = @ + 1,
              !.issued = Append(@, [prompt |-> s.currentPrompt,
                                    resume |-> ResumeOption(s),
                                    aborted |-> s.abortController = "aborted"])]

LoopIssue(o) ==
    /\ sess[o].pc = "loop_upd"
    /\ sess' = [sess EXCEPT ![o] = IssueTurn(@)]
    /\ Frame /\ UNCHANGED <<store, sessions, bridgeVars, permVars, calls>>

\* session.ts:221-250  an initialization record is consumed
TurnInit(o, h) ==
    /\ sess[o].pc = "turn"
    /\ ~sess[o].gotInit
    /\ ~Aborted(o)
    /\ h \in lim.handles
    /\ sess' = [sess EXCEPT ![o].sdkSessionId = h, ![o].gotInit = TRUE]
    /\ store' = StoreSdkSessionId(store, sess[o].id, h)
    /\ Frame /\ UNCHANGED <<sessions, bridgeVars, permVars, calls>>

\* A handlePermission invocation of o that has not returned
ActivePerms(o) ==
    {p \in PermIds : perms[p].obj = o /\ perms[p].pc \notin {"none", "done", "rejected"}}

AfterTurnKeepStatus(s) ==
    IF s.abortController = "aborted"
    THEN [s EXCEPT !.pc = "done", !.isFirstTurn = FALSE, !.running = @ - 1]
    ELSE [s EXCEPT !.pc = "idle_upd", !.isFirstTurn = FALSE, !.running = @ - 1]

\* session.ts:157-163  runSingleTurn returned: the event stream ended, or the
\* loop of line 221 broke on the cancellation signal (line 222).  The Agent
\* Service ends a turn normally only when no approval is outstanding, and its
\* stream begins with the initialization record.
AfterTurn(s) ==
    IF s.abortController = "aborted"
    THEN [s EXCEPT !.pc = "done", !.isFirstTurn = FALSE, !.running = @ - 1]
    ELSE [SetStatus(s, "idle") EXCEPT !.pc = "idle_upd", !.isFirstTurn = FALSE,
                                      !.running = @ - 1]

TurnReturn(o) ==
    /\ sess[o].pc = "turn"
    /\ Aborted(o) \/ (ActivePerms(o) = {} /\ sess[o].gotInit)
    /\ sess' = [sess EXCEPT ![o] = AfterTurn(@)]
    /\ store' = IF Aborted(o) THEN store
                ELSE StoreUpdateStatus(store, sess[o].id, "idle")
    /\ Frame /\ UNCHANGED <<sessions, bridgeVars, permVars, calls>>

CatchFailureCarryOn(s) ==
    IF s.abortController = "aborted"
    THEN [SetStatus(s, "idle") EXCEPT !.pc = "done", !.running = @ - 1,
                                      !.caught = "cancelled"]
    ELSE [SetStatus(s, "error") EXCEPT !.pc = "wait_upd", !.running = @ - 1,
                                       !.caught = "failure"]

CatchFailureAlwaysError(s) ==
    [SetStatus(s, "error") EXCEPT !.pc = "err_status", !.running = @ - 1,
                                  !.caught = IF s.abortController = "aborted"
                                             THEN "cancelled" ELSE "failure"]

\* session.ts:134-141  a failure thrown out of runConversation is caught and
\* classified by the cancellation signal (caught records the classification)
CatchFailure(s) ==
    IF s.abortController = "aborted"
    THEN [SetStatus(s, "idle") EXCEPT !.pc = "done", !.running = @ - 1,
                                      !.caught = "cancelled"]
    ELSE [SetStatus(s, "error") EXCEPT !.pc = "err_status", !.running = @ - 1,
                                       !.caught = "failure"]

TurnFail(o) ==
    /\ sess[o].pc = "turn"
    /\ sess' = [sess EXCEPT ![o] = CatchFailure(@)]
    /\ store' = StoreUpdateStatus(store, sess[o].id, sess'[o].status)
    /\ Frame /\ UNCHANGED <<sessions, bridgeVars, permVars, calls>>

\* session.ts:142-143  bridge.sendStatus returned, updateSessionStatus is awaited
ErrStatusSent(o) ==
    /\ sess[o].pc = "err_status"
    /\ sess' = [sess EXCEPT ![o].pc = "err_upd"]
    /\ Frame /\ UNCHANGED <<store, sessions, bridgeVars, permVars, calls>>

\* session.ts:143-145  start() returns after the error report
ErrUpdDone(o) ==
    /\ sess[o].pc = "err_upd"
    /\ sess' = [sess EXCEPT ![o].pc = "done"]
    /\ Frame /\ UNCHANGED <<store, sessions, bridgeVars, permVars, calls>>

\* session.ts:163-174  after the idle update: the completion notification, or
\* directly the transition to waiting
IdleUpdDone(o) ==
    /\ sess[o].pc = "idle_upd"
    /\ IF config.notifyOnCompletion
       THEN /\ sess' = [sess EXCEPT ![o].pc = "notify"]
            /\ store' = store
       ELSE /\ sess' = [sess EXCEPT ![o] = [SetStatus(@, "waiting") EXCEPT !.pc = "wait_upd"]]
            /\ store' = StoreUpdateStatus(store, sess[o].id, "waiting")
    /\ Frame /\ UNCHANGED <<sessions, bridgeVars, permVars, calls>>

\* session.ts:166-174  sendNotification returned
NotifyDone(o) ==
    /\ sess[o].pc = "notify"
    /\ sess' = [sess EXCEPT ![o] = [SetStatus(@, "waiting") EXCEPT !.pc = "wait_upd"]]
    /\ store' = StoreUpdateStatus(store, sess[o].id, "waiting")
    /\ Frame /\ UNCHANGED <<sessions, bridgeVars, permVars, calls>>

WaitForMessagePop(s) ==
    IF Len(s.messageQueue) > 0
    THEN [s EXCEPT !.waitValue = <<s.messageQueue[Len(s.messageQueue)]>>,
                   !.messageQueue = SubSeq(s.messageQueue, 1, Len(s.messageQueue) - 1),
                   !.resolveCalls = 0, !.pc = "wait_msg"]
    ELSE [s EXCEPT !.messageResolver = TRUE, !.resolveCalls = 0, !.pc = "wait_msg"]

\* session.ts:111-120  waitForMessage(): a queued message resolves the promise
\* at once, otherwise the resolver is stored
WaitForMessage(s) ==
    IF Len(s.messageQueue) > 0
    THEN [s EXCEPT !.waitValue = <<Head(s.messageQueue)>>,
                   !.messageQueue = Tail(s.messageQueue),
                   !.resolveCalls = 0, !.pc = "wait_msg"]
    ELSE [s EXCEPT !.messageResolver = TRUE, !.resolveCalls = 0, !.pc = "wait_msg"]

\* session.ts:174-176  the waiting update returned, waitForMessage is awaited
WaitUpdDone(o) ==
    /\ sess[o].pc = "wait_upd"
    /\ sess' = [sess EXCEPT ![o] = WaitForMessage(@)]
    /\ Frame /\ UNCHANGED <<store, sessions, bridgeVars, permVars, calls>>

\* session.ts:176-178, 152-154  the awaited promise is resolved: the value
\* becomes the prompt, the signal is consulted, the next iteration begins
WaitReturn(o) ==
    /\ sess[o].pc = "wait_msg"
    /\ sess[o].waitValue # <<>>
    /\ IF Aborted(o)
       THEN /\ sess' = [sess EXCEPT ![o].currentPrompt = sess[o].waitValue[1],
                                    ![o].waitValue = <<>>, ![o].pc = "done"]
            /\ store' = store
       ELSE /\ sess' = [sess EXCEPT ![o] = [SetStatus(@, "working") EXCEPT
                            !.currentPrompt = sess[o].waitValue[1],
                            !.waitValue = <<>>, !.pc = "loop_upd"]]
            /\ store' = StoreUpdateStatus(store, sess[o].id, "working")
    /\ Frame /\ UNCHANGED <<sessions, bridgeVars, permVars, calls>>

SendMessageAlwaysQueues(s, text) ==
    [s EXCEPT !.messageQueue = Append(@, text), !.sent = Append(@, text)]

SendMessageOutOfBand(s, text) ==
    IF s.messageResolver
    THEN [s EXCEPT !.messageResolver = FALSE, !.waitValue = <<text>>,
                   !.resolveCalls = @ + 1, !.sent = Append(@, text)]
    ELSE [s EXCEPT !.running = @ + 1, !.sent = Append(@, text),
                   !.issued = Append(@, [prompt |-> text, resume |-> ResumeOption(s),
                                         aborted |-> s.abortController = "aborted"])]

\* session.ts:98-106  sendMessage(text)
SendMessageEffect(s, text) ==
    IF s.messageResolver
    THEN [s EXCEPT !.messageResolver = FALSE, !.waitValue = <<text>>,
                   !.resolveCalls = @ + 1, !.sent = Append(@, text)]
    ELSE [s EXCEPT !.messageQueue = Append(@, text), !.sent = Append(@, text)]

SendMessage(o) ==
    /\ sess[o].pc # "none"
    /\ SentCount < lim.msgs
    /\ sess' = [sess EXCEPT ![o] = SendMessageEffect(@, MsgText(Len(sess[o].sent) + 1))]
    /\ Frame /\ UNCHANGED <<store, sessions, bridgeVars, permVars, calls>>

AbortKeepResolver(s) ==
    LET a == [SetStatus(s, "idle") EXCEPT
                 !.abortController = IF @ = "null" THEN "null" ELSE "aborted"]
    IN IF a.messageResolver
       THEN [a EXCEPT !.waitValue = <<EmptyString>>, !.resolveCalls = @ + 1]
       ELSE a

AbortBySendingEmpty(s) ==
    LET a == [SetStatus(s, "idle") EXCEPT
                 !.abortController = IF @ = "null" THEN "null" ELSE "aborted"]
    IN IF a.messageResolver
       THEN [a EXCEPT !.waitValue = <<EmptyString>>, !.resolveCalls = @ + 1,
                      !.messageResolver = FALSE]
       ELSE [a EXCEPT !.messageQueue = Append(@, EmptyString)]

\* session.ts:517-525  abort()
AbortEffect(s) ==
    LET a == [SetStatus(s, "idle") EXCEPT
                 !.abortController = IF @ = "null" THEN "null" ELSE "aborted"]
    IN IF a.messageResolver
       THEN [a EXCEPT !.waitValue = <<EmptyString>>, !.resolveCalls = @ + 1,
                      !.messageResolver = FALSE]
       ELSE a

Abort(o) ==
    /\ sess[o].pc # "none"
    /\ sess' = [sess EXCEPT ![o] = AbortEffect(@)]
    /\ store' = StoreUpdateStatus(store, sess[o].id, "idle")
    /\ abortRun' = [abortRun EXCEPT ![o] = IF @ < 2 THEN @ + 1 ELSE @]
    /\ listed' = NotListed
    /\ UNCHANGED <<config, lim, dropped, chunker, singleTurn, unauthorized, sessions, bridgeVars, permVars, calls>>

\* ---------------------------------------------------------- Permission Gate
\* gate: handlePermission was called; asked: sendPermissionRequest was called;
\* clicked: the buttons clicked on the request message, in order; reminded:
\* the reminder notifications sent for the request
NoPerm == [obj |-> NoObj, tool |-> "Read", pc |-> "none", response |-> "none",
           result |-> "none", asked |-> FALSE, gate |-> FALSE, clicked |-> <<>>,
           reminded |-> 0]

\* Request ids are generated per call (session.ts:491) and taken to be unique:
\* the next unused id
NextPerm == CHOOSE p \in PermIds : perms[p].pc = "none" /\
                \A q \in PermIds : q < p => perms[q].pc # "none"

StickyIgnored(s, tool) == config.autoApproveReadOnly /\ tool \in ReadOnlyTools

ReadOnlyIgnored(s, tool) == tool \in s.autoApprovedTools

ReadOnlyUnconditional(s, tool) ==
    tool \in s.autoApprovedTools \/ tool \in ReadOnlyTools

\* session.ts:475-484  the two shortcuts of handlePermission
AllowedWithoutAsking(s, tool) ==
    \/ tool \in s.autoApprovedTools
    \/ config.autoApproveReadOnly /\ tool \in ReadOnlyTools

\* session.ts:183-196  the approval callback is installed unless the Session
\* bypasses approval, and the allow-list is handed to the Agent Service, which
\* runs a listed tool without consulting the callback
GateConsulted(s, tool) == ~s.skipPermissions /\ tool \notin s.allowedTools

\* A tool invocation of a turn that the Agent Service runs without calling
\* handlePermission
ToolBypass(o, tool) ==
    /\ sess[o].pc = "turn"
    /\ ~Aborted(o)
    /\ \E p \in PermIds : perms[p].pc = "none"
    /\ Cardinality({p \in PermIds : perms[p].pc # "none"}) < lim.perms
    /\ ~GateConsulted(sess[o], tool)
    /\ perms' = [perms EXCEPT ![NextPerm] =
                    [NoPerm EXCEPT !.obj = o, !.tool = tool, !.pc = "done",
                                   !.result = "allow"]]
    /\ Frame /\ UNCHANGED <<sessionVars, sessions, bridgeVars, pendingPermissions,
                   reminders, clicks, calls>>

\* session.ts:471-488  handlePermission(toolName) called by the Agent Service
\* during a turn: allow at once, or status waiting and the first bridge await
PermCall(o, tool) ==
    /\ sess[o].pc = "turn"
    /\ ~Aborted(o)
    /\ \E p \in PermIds : perms[p].pc = "none"
    /\ Cardinality({p \in PermIds : perms[p].pc # "none"}) < lim.perms
    /\ GateConsulted(sess[o], tool)
    /\ IF AllowedWithoutAsking(sess[o], tool)
       THEN /\ perms' = [perms EXCEPT ![NextPerm] =
                    [NoPerm EXCEPT !.obj = o, !.tool = tool, !.pc = "done",
                                   !.result = "allow", !.gate = TRUE]]
            /\ UNCHANGED <<sess, store>>
       ELSE /\ perms' = [perms EXCEPT ![NextPerm] =
                    [NoPerm EXCEPT !.obj = o, !.tool = tool, !.pc = "perm_upd1",
                                   !.gate = TRUE]]
            /\ sess' = [sess EXCEPT ![o] = SetStatus(@, "waiting")]
            /\ store' = StoreUpdateStatus(store, sess[o].id, "waiting")
    /\ Frame /\ UNCHANGED <<sessions, bridgeVars, pendingPermissions, reminders,
                   clicks, calls>>

\* session.ts:488-497, discord-adapter.ts:320-322  the waiting update returned;
\* sendPermissionRequest looks the channel up and throws without one
PermSend(p) ==
    /\ perms[p].pc = "perm_upd1"
    /\ IF channelMap[sess[perms[p].obj].id] = NoChan
       THEN perms' = [perms EXCEPT ![p].pc = "rejected"]
       ELSE perms' = [perms EXCEPT ![p].pc = "perm_sending", ![p].asked = TRUE]
    /\ Frame /\ UNCHANGED <<sessionVars, sessions, bridgeVars, pendingPermissions,
                   reminders, clicks, calls>>

\* discord-adapter.ts:383-400  the promise is created: the resolver is stored
\* and the reminder timer armed
Registered(p) ==
    /\ perms' = [perms EXCEPT ![p].pc = "perm_wait"]
    /\ pendingPermissions' = pendingPermissions \cup {p}
    /\ reminders' = reminders \cup {p}

\* discord-adapter.ts:373-383  channel.send returned: the request message with
\* its buttons is in the channel; the DM notification is awaited when configured
PermPosted(p) ==
    /\ perms[p].pc = "perm_sending"
    /\ IF config.notifyOnPermission
       THEN /\ perms' = [perms EXCEPT ![p].pc = "perm_dm"]
            /\ UNCHANGED <<pendingPermissions, reminders>>
       ELSE Registered(p)
    /\ Frame /\ UNCHANGED <<sessionVars, sessions, bridgeVars, clicks, calls>>

\* discord-adapter.ts:377-400  sendNotification returned
PermRegistered(p) ==
    /\ perms[p].pc = "perm_dm"
    /\ Registered(p)
    /\ Frame /\ UNCHANGED <<sessionVars, sessions, bridgeVars, clicks, calls>>

\* Button clicks so far, over all requests
RECURSIVE ClicksUpTo(_)
ClicksUpTo(p) == IF p = 0 THEN 0 ELSE Len(perms[p].clicked) + ClicksUpTo(p - 1)
ClickCount == ClicksUpTo(Cardinality(PermIds))

\* The request message is in the channel and still shows its three buttons
\* (discord-adapter.ts:373, replaced by the update of lines 498-508)
ButtonsShown(p) ==
    perms[p].pc \in {"perm_dm", "perm_wait"} /\ perms[p].response = "none"

\* discord-adapter.ts:470-498  a button of request p is clicked while its
\* resolver is stored: the entry is deleted, interaction.update is awaited
Button(p, action) ==
    /\ ButtonsShown(p)
    /\ ClickCount < lim.clicks
    /\ p \in pendingPermissions
    /\ pendingPermissions' = pendingPermissions \ {p}
    /\ clicks' = [clicks EXCEPT ![p] = action]
    /\ perms' = [perms EXCEPT ![p].clicked = Append(@, action)]
    /\ Frame /\ UNCHANGED <<sessionVars, sessions, bridgeVars, reminders, calls>>

\* discord-adapter.ts:479-480, 511-513  a button of request p is clicked while
\* no resolver is stored for it: the click is answered "already resolved"
ButtonUnknown(p, action) ==
    /\ ButtonsShown(p)
    /\ ClickCount < lim.clicks
    /\ p \notin pendingPermissions
    /\ perms' = [perms EXCEPT ![p].clicked = Append(@, action)]
    /\ Frame /\ UNCHANGED <<sessionVars, sessions, bridgeVars, pendingPermissions,
                   reminders, clicks, calls>>

\* discord-adapter.ts:396-399, 510  resolve(response): the reminder is
\* cleared and the promise of sendPermissionRequest resolved
ButtonResolve(p) ==
    /\ clicks[p] # "none"
    /\ perms[p].response = "none"
    /\ perms' = [perms EXCEPT ![p].response = clicks[p]]
    /\ reminders' = reminders \ {p}
    /\ clicks' = [clicks EXCEPT ![p] = "none"]
    /\ Frame /\ UNCHANGED <<sessionVars, sessions, bridgeVars, pendingPermissions, calls>>

\* session.ts:497-505  the decision arrived: sticky approval, status working
PermDecided(s, tool, response) ==
    [SetStatus(s, "working") EXCEPT
        !.autoApprovedTools = IF response = "allowAll" THEN @ \cup {tool} ELSE @]

PermResume(p) ==
    /\ perms[p].pc = "perm_wait"
    /\ perms[p].response # "none"
    /\ sess' = [sess EXCEPT ![perms[p].obj] = PermDecided(@, perms[p].tool, perms[p].response)]
    /\ store' = StoreUpdateStatus(store, sess[perms[p].obj].id, "working")
    /\ perms' = [perms EXCEPT ![p].pc = "perm_upd2"]
    /\ Frame /\ UNCHANGED <<sessions, bridgeVars, pendingPermissions, reminders,
                   clicks, calls>>

\* session.ts:505-511  the working update returned; the decision is returned
PermReturn(p) ==
    /\ perms[p].pc = "perm_upd2"
    /\ perms' = [perms EXCEPT ![p].pc = "done",
                     ![p].result = IF perms[p].response = "deny" THEN "deny" ELSE "allow"]
    /\ Frame /\ UNCHANGED <<sessionVars, sessions, bridgeVars, pendingPermissions,
                   reminders, clicks, calls>>

ReminderDenies(p) ==
    /\ p \in reminders
    /\ reminders' = reminders \ {p}
    /\ perms' = [perms EXCEPT ![p].reminded = @ + 1,
                     ![p].response = IF @ = "none" THEN "deny" ELSE @]
    /\ pendingPermissions' = pendingPermissions \ {p}
    /\ Frame /\ UNCHANGED <<sessionVars, sessions, bridgeVars, clicks, calls>>

\* discord-adapter.ts:387-392  the reminder timer fires: the notification is
\* sent
ReminderFire(p) ==
    /\ p \in reminders
    /\ reminders' = reminders \ {p}
    /\ perms' = [perms EXCEPT ![p].reminded = @ + 1]
    /\ Frame /\ UNCHANGED <<sessionVars, sessions, bridgeVars,
                   pendingPermissions, clicks, calls>>

\* ---------------------------------------------------------- DiscordAdapter
NoName == "none"
Deleted == "deleted"

\* discord-adapter.ts:167  the channel name of a session name: lower-cased,
\* every character outside a-z, 0-9 and "-" replaced by "-"
ChannelName(n) == CASE n = "a" -> "claude-a"
                    [] n = "b" -> "claude-b"
                    [] n = "A" -> "claude-a"

\* discord-adapter.ts:170  category.children.cache.find(ch => ch.name === channelName)
ExistingChannels(n) == {c \in ChanIds : guild[c] = ChannelName(n)}

\* The id of the next channel the platform creates: ids are never reused
FreshChannel == CHOOSE c \in ChanIds : guild[c] = NoName /\
                    \A d \in ChanIds : d < c => guild[d] # NoName

\* ---------------------------------------------------------- SessionManager
NoCall == [op |-> "none", pc |-> "none", name |-> "a", handle |-> NoHandle,
           obj |-> NoObj, chan |-> NoChan]

NextCall == CHOOSE c \in Calls : calls[c].op = "none" /\
                \A d \in Calls : d < c => calls[d].op # "none"

NextObj == CHOOSE o \in Objs : sess[o].pc = "none" /\
               \A q \in Objs : q < o => sess[q].pc # "none"

LiveCount == Cardinality({n \in Names : sessions[n] # NoObj})

CapacityOffByOne == LiveCount > config.maxConcurrentSessions

\* session-manager.ts:40  the concurrent session limit
CapacityReached == LiveCount >= config.maxConcurrentSessions

\* session-manager.ts:63-102 (createSession), 129-164 (resumeSession): the
\* channel id is known; the entry is stored, the Session constructed and
\* registered, and bridge.sendStatus awaited
Register(c, call, chan) ==
    /\ store' = StoreSet(store, call.name, EntryFor(chan, call.handle))
    /\ sess' = [sess EXCEPT ![NextObj] = NewSession(call.name, call.handle)]
    /\ sessions' = [sessions EXCEPT ![call.name] = NextObj]
    /\ calls' = [calls EXCEPT ![c] = [call EXCEPT !.pc = "status", !.obj = NextObj,
                                                  !.chan = chan]]

\* discord-adapter.ts:166-178 called from session-manager.ts:61 / 127: an
\* existing channel of that name is reused without suspension, otherwise
\* guild.channels.create is awaited
OpenChannel(c, call) ==
    IF ExistingChannels(call.name) # {}
    THEN LET ch == CHOOSE x \in ExistingChannels(call.name) : TRUE IN
         /\ channelMap' = [channelMap EXCEPT ![call.name] = ch]
         /\ reverseChannelMap' = [reverseChannelMap EXCEPT ![ch] = call.name]
         /\ guild' = guild
         /\ Register(c, call, ch)
    ELSE /\ calls' = [calls EXCEPT ![c] = [call EXCEPT !.pc = "chan"]]
         /\ UNCHANGED <<sess, store, sessions, bridgeVars>>

\* session-manager.ts:33-61  createSession(name, ...) is called
CreateSessionCall(n) ==
    /\ \E c \in Calls : calls[c].op = "none"
    /\ LET c == NextCall
           call == [NoCall EXCEPT !.op = "create", !.name = n] IN
       IF CapacityReached
       THEN /\ calls' = [calls EXCEPT ![c] = [call EXCEPT !.pc = "rejected"]]
            /\ UNCHANGED <<sess, store, sessions, bridgeVars>>
       ELSE OpenChannel(c, call)
    /\ Frame /\ UNCHANGED permVars

\* session-manager.ts:119-127  resumeSession(name, sdkSessionId, ...) is called
ResumeSessionCall(n, h) ==
    /\ \E c \in Calls : calls[c].op = "none"
    /\ h \in lim.handles
    /\ OpenChannel(NextCall, [NoCall EXCEPT !.op = "resume", !.name = n, !.handle = h])
    /\ Frame /\ UNCHANGED permVars

\* discord-adapter.ts:178-188, then session-manager.ts:63-105: the channel
\* was created
ChannelCreated(c) ==
    /\ calls[c].pc = "chan"
    /\ channelMap' = [channelMap EXCEPT ![calls[c].name] = FreshChannel]
    /\ reverseChannelMap' = [reverseChannelMap EXCEPT ![FreshChannel] = calls[c].name]
    /\ guild' = [guild EXCEPT ![FreshChannel] = ChannelName(calls[c].name)]
    /\ Register(c, calls[c], FreshChannel)
    /\ Frame /\ UNCHANGED permVars

\* session-manager.ts:105-113 / 166-173: sendStatus returned; start() runs up
\* to its first await (session.ts:126-130) and the id is returned
StatusSent(c) ==
    /\ calls[c].pc = "status"
    /\ calls[c].op \in {"create", "resume"}
    /\ calls' = [calls EXCEPT ![c].pc = "returned"]
    /\ sess' = [sess EXCEPT ![calls[c].obj] = StartEffect(@)]
    /\ store' = StoreUpdateStatus(store, sess[calls[c].obj].id, "working")
    /\ Frame /\ UNCHANGED <<sessions, bridgeVars, permVars>>

\* session-manager.ts:179-191  endSession(sessionId) is called.  Without a
\* mapped channel sendStatus and destroySessionChannel return without a
\* platform call (discord-adapter.ts:193, 225, 433-436) and the call runs to
\* its end before any other handler; otherwise it is suspended in sendStatus
EndSessionCall(n) ==
    /\ \E c \in Calls : calls[c].op = "none"
    /\ LET live == sessions[n] # NoObj
           st == IF live THEN StoreUpdateStatus(store, sess[sessions[n]].id, "idle")
                         ELSE store
       IN /\ sess' = IF live THEN [sess EXCEPT ![sessions[n]] = AbortEffect(@)] ELSE sess
          /\ sessions' = [sessions EXCEPT ![n] = NoObj]
          /\ IF channelMap[n] = NoChan
             THEN /\ store' = StoreDelete(st, n)
                  /\ calls' = [calls EXCEPT ![NextCall] =
                                  [NoCall EXCEPT !.op = "end", !.name = n,
                                                 !.pc = "returned", !.obj = sessions[n]]]
             ELSE /\ store' = st
                  /\ calls' = [calls EXCEPT ![NextCall] =
                                  [NoCall EXCEPT !.op = "end", !.name = n,
                                                 !.pc = "status", !.obj = sessions[n]]]
    /\ Frame /\ UNCHANGED <<bridgeVars, permVars>>

\* session-manager.ts:187-188, discord-adapter.ts:191-196: sendStatus returned;
\* destroySessionChannel returns at once without a mapped channel, otherwise
\* the platform calls are awaited
EndStatusSent(c) ==
    /\ calls[c].pc = "status"
    /\ calls[c].op = "end"
    /\ IF channelMap[calls[c].name] = NoChan
       THEN /\ store' = StoreDelete(store, calls[c].name)
            /\ calls' = [calls EXCEPT ![c].pc = "returned"]
       ELSE /\ store' = store
            /\ calls' = [calls EXCEPT ![c].pc = "destroy",
                                      ![c].chan = channelMap[calls[c].name]]
    /\ Frame /\ UNCHANGED <<sess, sessions, bridgeVars, permVars>>

\* discord-adapter.ts:196-212, session-manager.ts:188: the channel is deleted,
\* both mappings removed and the persisted entry deleted
ChannelDestroyed(c) ==
    /\ calls[c].pc = "destroy"
    /\ guild' = [guild EXCEPT ![calls[c].chan] = Deleted]
    /\ reverseChannelMap' = [reverseChannelMap EXCEPT ![calls[c].chan] = NoName]
    /\ channelMap' = [channelMap EXCEPT ![calls[c].name] = NoChan]
    /\ store' = StoreDelete(store, calls[c].name)
    /\ calls' = [calls EXCEPT ![c].pc = "returned"]
    /\ Frame /\ UNCHANGED <<sess, sessions, permVars>>

InboundBroadcast(ch) ==
    /\ reverseChannelMap[ch] # NoName
    /\ sessions[reverseChannelMap[ch]] # NoObj
    /\ SentCount + dropped < lim.msgs
    /\ sess' = [o \in Objs |->
                  IF sess[o].pc # "none"
                  THEN SendMessageEffect(sess[o], MsgText(Len(sess[o].sent) + 1))
                  ELSE sess[o]]
    /\ Frame /\ UNCHANGED <<store, sessions, bridgeVars, permVars, calls>>

\* discord-adapter.ts:109-132, session-manager.ts:226-236: a message of the
\* authorized user in channel ch is routed to the live Session bound to it
InboundMessage(ch) ==
    /\ reverseChannelMap[ch] # NoName
    /\ sessions[reverseChannelMap[ch]] # NoObj
    /\ LET o == sessions[reverseChannelMap[ch]] IN
       /\ SentCount + dropped < lim.msgs
       /\ sess' = [sess EXCEPT ![o] = SendMessageEffect(@, MsgText(Len(sess[o].sent) + 1))]
    /\ Frame /\ UNCHANGED <<store, sessions, bridgeVars, permVars, calls>>

ListPersistedOnly ==
    /\ listed' = store
    /\ abortRun' = [o \in Objs |-> 0]
    /\ UNCHANGED <<config, lim, dropped, chunker, singleTurn, unauthorized, sess, store, sessions, bridgeVars, permVars, calls>>

\* session-manager.ts:196-207  listSessions(): every stored info object, with
\* the status and the sticky tools of the live Session of its id written into
\* it (the objects are the store's own: store.ts:50-52)
ListSessionsCall ==
    /\ listed' = [n \in Names |->
                    IF store[n].present /\ sessions[n] # NoObj
                    THEN [store[n] EXCEPT
                            !.status = sess[sessions[n]].status,
                            !.autoApprovedTools = sess[sessions[n]].autoApprovedTools]
                    ELSE store[n]]
    /\ store' = listed'
    /\ abortRun' = [o \in Objs |-> 0]
    /\ UNCHANGED <<config, lim, dropped, chunker, singleTurn, unauthorized, sess, sessions, bridgeVars, permVars, calls>>

InboundToAnyLive(ch) ==
    /\ guild[ch] \notin {NoName, Deleted}
    /\ reverseChannelMap[ch] = NoName \/ sessions[reverseChannelMap[ch]] = NoObj
    /\ SentCount + dropped < lim.msgs
    /\ dropped' = dropped + 1
    /\ \E n \in Names :
          /\ sessions[n] # NoObj
          /\ sess' = [sess EXCEPT ![sessions[n]] =
                         SendMessageEffect(@, DroppedText(dropped + 1))]
    /\ listed' = NotListed /\ abortRun' = [o \in Objs |-> 0]
    /\ UNCHANGED <<config, lim, chunker, singleTurn, unauthorized, store, sessions, bridgeVars, permVars, calls>>

\* discord-adapter.ts:123-131, session-manager.ts:228-232: a message of the
\* authorized user in a channel that is bound to no Session id, or to an id
\* without a live Session, is logged and dropped
InboundDropped(ch) ==
    /\ guild[ch] \notin {NoName, Deleted}
    /\ reverseChannelMap[ch] = NoName \/ sessions[reverseChannelMap[ch]] = NoObj
    /\ SentCount + dropped < lim.msgs
    /\ dropped' = dropped + 1
    /\ listed' = NotListed /\ abortRun' = [o \in Objs |-> 0]
    /\ UNCHANGED <<config, lim, chunker, singleTurn, unauthorized, sess, store, sessions, bridgeVars, permVars, calls>>

\* ------------------------------------------------ one Session driven directly
\* The state createSession("a") leaves at session-manager.ts:102, or
\* resumeSession("a", "h1") at line 164: the channel bound, the entry stored,
\* the Session constructed (seeded by resumeSession) and registered.
Seeds == {NoHandle, "h1"}

Configs == [maxConcurrentSessions : 1..MaxCap, autoApproveReadOnly : BOOLEAN,
            notifyOnCompletion : BOOLEAN, notifyOnPermission : BOOLEAN]

Init ==
    /\ config \in {c \in Configs : /\ c.maxConcurrentSessions = 1 /\ c.notifyOnPermission
                                   /\ ~c.autoApproveReadOnly}
    /\ lim = [msgs |-> MaxMsgs, perms |-> MaxPerms, handles |-> Handles, clicks |-> 1]
    /\ \E seed \in Seeds :
          /\ sess = [o \in Objs |-> IF o = 1 THEN NewSession("a", seed) ELSE NoSession]
          /\ store = [n \in Names |-> IF n = "a" THEN EntryFor(1, seed) ELSE NoEntry]
    /\ perms = [p \in PermIds |-> NoPerm]
    /\ sessions = [n \in Names |-> IF n = "a" THEN 1 ELSE NoObj]
    /\ channelMap = [n \in Names |-> IF n = "a" THEN 1 ELSE NoChan]
    /\ reverseChannelMap = [c \in ChanIds |-> IF c = 1 THEN "a" ELSE NoName]
    /\ guild = [c \in ChanIds |-> IF c = 1 THEN ChannelName("a") ELSE NoName]
    /\ pendingPermissions = {}
    /\ reminders = {}
    /\ clicks = [p \in PermIds |-> "none"]
    /\ calls = [c \in Calls |-> NoCall]
    /\ abortRun = [o \in Objs |-> 0]
    /\ dropped = 0
    /\ listed = NotListed
    /\ chunker = NoChunking
    /\ singleTurn = NoTurn
    /\ unauthorized = 0

Next ==
    \/ \E o \in Objs : Start(o)
    \/ \E o \in Objs : SendMessage(o)
    \/ \E o \in Objs : Abort(o)
    \/ \E o \in Objs : StartResume(o)
    \/ \E o \in Objs : LoopIssue(o)
    \/ \E o \in Objs, h \in Handles : TurnInit(o, h)
    \/ \E o \in Objs : TurnReturn(o)
    \/ \E o \in Objs : TurnFail(o)
    \/ \E o \in Objs : ErrStatusSent(o)
    \/ \E o \in Objs : ErrUpdDone(o)
    \/ \E o \in Objs : IdleUpdDone(o)
    \/ \E o \in Objs : NotifyDone(o)
    \/ \E o \in Objs : WaitUpdDone(o)
    \/ \E o \in Objs : WaitReturn(o)
    \/ \E o \in Objs, t \in Tools : PermCall(o, t)
    \/ \E p \in PermIds : PermSend(p)
    \/ \E p \in PermIds : PermPosted(p)
    \/ \E p \in PermIds : PermRegistered(p)
    \/ \E p \in PermIds, a \in {"allow", "deny", "allowAll"} : Button(p, a)
    \/ \E p \in PermIds : ButtonResolve(p)
    \/ \E p \in PermIds : PermResume(p)
    \/ \E p \in PermIds : PermReturn(p)
    \/ \E p \in PermIds : ReminderFire(p)

Spec == Init /\ [][Next]_vars

\* ------------------------------------------------- two Sessions side by side
\* The state after createSession("a", ...) and createSession("b", ...) have
\* both registered their Session (session-manager.ts:63-102); the operator
\* then writes in either channel, ends or aborts "a", answers the approval
\* request of "b" and lists the sessions, while both conversations run
InitPair ==
    /\ config \in {c \in Configs : /\ c.maxConcurrentSessions = MaxCap
                                   /\ ~c.notifyOnPermission /\ ~c.autoApproveReadOnly
                                   /\ ~c.notifyOnCompletion}
    /\ lim = [msgs |-> MgrMaxMsgs, perms |-> MaxPerms, handles |-> {"h1"}, clicks |-> 1]
    /\ sess = [o \in Objs |-> CASE o = 1 -> NewSession("a", NoHandle)
                               [] o = 2 -> NewSession("b", NoHandle)
                               [] OTHER -> NoSession]
    /\ store = [n \in Names |-> CASE n = "a" -> EntryFor(1, NoHandle)
                                 [] n = "b" -> EntryFor(2, NoHandle)
                                 [] OTHER -> NoEntry]
    /\ perms = [p \in PermIds |-> NoPerm]
    /\ sessions = [n \in Names |-> CASE n = "a" -> 1 [] n = "b" -> 2 [] OTHER -> NoObj]
    /\ channelMap = [n \in Names |-> CASE n = "a" -> 1 [] n = "b" -> 2 [] OTHER -> NoChan]
    /\ reverseChannelMap = [c \in ChanIds |-> CASE c = 1 -> "a" [] c = 2 -> "b"
                                               [] OTHER -> NoName]
    /\ guild = [c \in ChanIds |-> CASE c = 1 -> ChannelName("a") [] c = 2 -> ChannelName("b")
                                   [] OTHER -> NoName]
    /\ pendingPermissions = {}
    /\ reminders = {}
    /\ clicks = [p \in PermIds |-> "none"]
    /\ calls = [c \in Calls |-> NoCall]
    /\ abortRun = [o \in Objs |-> 0]
    /\ dropped = 0
    /\ listed = NotListed
    /\ chunker = NoChunking
    /\ singleTurn = NoTurn
    /\ unauthorized = 0

NextPair ==
    \/ \E o \in Objs : Start(o)
    \/ \E ch \in ChanIds : InboundMessage(ch)
    \/ \E ch \in ChanIds : InboundDropped(ch)
    \/ Abort(1)
    \/ EndSessionCall("a")
    \/ \E c \in Calls : EndStatusSent(c)
    \/ \E c \in Calls : ChannelDestroyed(c)
    \/ ListSessionsCall
    \/ \E o \in Objs : StartResume(o)
    \/ \E o \in Objs : LoopIssue(o)
    \/ \E o \in Objs, h \in Handles : TurnInit(o, h)
    \/ \E o \in Objs : TurnReturn(o)
    \/ \E o \in Objs : IdleUpdDone(o)
    \/ \E o \in Objs : WaitUpdDone(o)
    \/ \E o \in Objs : WaitReturn(o)
    \/ PermCall(2, "Bash")
    \/ \E p \in PermIds : PermSend(p)
    \/ \E p \in PermIds : PermPosted(p)
    \/ \E p \in PermIds, a \in {"allow", "deny", "allowAll"} : Button(p, a)
    \/ \E p \in PermIds : ButtonResolve(p)
    \/ \E p \in PermIds : PermResume(p)
    \/ \E p \in PermIds : PermReturn(p)

SpecPair == InitPair /\ [][NextPair]_vars

\* ---------------------------------------------- a name ended and used again
\* The state after createSession("a", ...) has registered its Session and is
\* suspended in sendStatus (session-manager.ts:102-105); the operator ends
\* "a" and creates a Session of that name again while the first one runs on
InitAgain ==
    /\ config \in {c \in Configs : /\ c.maxConcurrentSessions = 1 /\ ~c.notifyOnPermission
                                   /\ ~c.autoApproveReadOnly /\ ~c.notifyOnCompletion}
    /\ lim = [msgs |-> 0, perms |-> MaxPerms, handles |-> {"h1"}, clicks |-> 1]
    /\ sess = [o \in Objs |-> IF o = 1 THEN NewSession("a", NoHandle) ELSE NoSession]
    /\ store = [n \in Names |-> IF n = "a" THEN EntryFor(1, NoHandle) ELSE NoEntry]
    /\ perms = [p \in PermIds |-> NoPerm]
    /\ sessions = [n \in Names |-> IF n = "a" THEN 1 ELSE NoObj]
    /\ channelMap = [n \in Names |-> IF n = "a" THEN 1 ELSE NoChan]
    /\ reverseChannelMap = [c \in ChanIds |-> IF c = 1 THEN "a" ELSE NoName]
    /\ guild = [c \in ChanIds |-> IF c = 1 THEN ChannelName("a") ELSE NoName]
    /\ pendingPermissions = {}
    /\ reminders = {}
    /\ clicks = [p \in PermIds |-> "none"]
    /\ calls = [c \in Calls |-> NoCall]
    /\ abortRun = [o \in Objs |-> 0]
    /\ dropped = 0
    /\ listed = NotListed
    /\ chunker = NoChunking
    /\ singleTurn = NoTurn
    /\ unauthorized = 0

NextAgain ==
    \/ Start(1)
    \/ EndSessionCall("a")
    \/ \E c \in Calls : EndStatusSent(c)
    \/ \E c \in Calls : ChannelDestroyed(c)
    \/ CreateSessionCall("a")
    \/ \E c \in Calls : ChannelCreated(c)
    \/ \E c \in Calls : StatusSent(c)
    \/ \E o \in Objs : StartResume(o)
    \/ \E o \in Objs : LoopIssue(o)
    \/ \E o \in Objs, h \in Handles : TurnInit(o, h)
    \/ \E o \in Objs : TurnReturn(o)
    \/ \E o \in Objs : TurnFail(o)
    \/ \E o \in Objs : ErrStatusSent(o)
    \/ \E o \in Objs : ErrUpdDone(o)
    \/ \E o \in Objs : IdleUpdDone(o)
    \/ \E o \in Objs : WaitUpdDone(o)
    \/ \E o \in Objs : WaitReturn(o)
    \/ PermCall(1, "Bash")
    \/ \E p \in PermIds : PermSend(p)
    \/ \E p \in PermIds : PermPosted(p)
    \/ \E p \in PermIds, a \in {"allow", "deny", "allowAll"} : Button(p, a)
    \/ \E p \in PermIds : ButtonResolve(p)
    \/ \E p \in PermIds : PermResume(p)
    \/ \E p \in PermIds : PermReturn(p)

SpecAgain == InitAgain /\ [][NextAgain]_vars

\* ------------------------------------------------------ the manager driven
\* The process starts with an empty store, or with the persisted entry of a
\* Session of an earlier run, whose channel binding index.ts:336-342 restores;
\* no Session object exists for it (store.ts:15-28)
RestoredEntry == [EntryFor(1, "h1") EXCEPT !.status = "waiting"]

InitMgr ==
    /\ config \in {c \in Configs : /\ ~c.autoApproveReadOnly /\ c.notifyOnCompletion
                                   /\ c.notifyOnPermission}
    /\ lim = [msgs |-> MgrMaxMsgs, perms |-> 0, handles |-> {"h1"}, clicks |-> 0]
    /\ sess = [o \in Objs |-> NoSession]
    /\ perms = [p \in PermIds |-> NoPerm]
    /\ sessions = [n \in Names |-> NoObj]
    /\ \E restored \in SUBSET {"A"} :
          /\ store = [n \in Names |-> IF n \in restored THEN RestoredEntry ELSE NoEntry]
          /\ channelMap = [n \in Names |-> IF n \in restored THEN 1 ELSE NoChan]
          /\ reverseChannelMap = [c \in ChanIds |->
                                    IF c = 1 /\ "A" \in restored THEN "A" ELSE NoName]
          /\ guild = [c \in ChanIds |->
                        IF c = 1 /\ "A" \in restored THEN ChannelName("A") ELSE NoName]
    /\ pendingPermissions = {}
    /\ reminders = {}
    /\ clicks = [p \in PermIds |-> "none"]
    /\ calls = [c \in Calls |-> NoCall]
    /\ abortRun = [o \in Objs |-> 0]
    /\ dropped = 0
    /\ listed = NotListed
    /\ chunker = NoChunking
    /\ singleTurn = NoTurn
    /\ unauthorized = 0

NextMgr ==
    \/ \E n \in Names : CreateSessionCall(n)
    \/ \E n \in Names, h \in Handles : ResumeSessionCall(n, h)
    \/ \E n \in Names : EndSessionCall(n)
    \/ \E c \in Calls : ChannelCreated(c)
    \/ \E c \in Calls : StatusSent(c)
    \/ \E c \in Calls : EndStatusSent(c)
    \/ \E c \in Calls : ChannelDestroyed(c)
    \/ \E ch \in ChanIds : InboundMessage(ch)
    \/ \E ch \in ChanIds : InboundDropped(ch)
    \/ \E o \in Objs : StartResume(o)
    \/ \E o \in Objs : LoopIssue(o)
    \/ \E o \in Objs, h \in Handles : TurnInit(o, h)
    \/ \E o \in Objs : TurnReturn(o)
    \/ \E o \in Objs : TurnFail(o)
    \/ \E o \in Objs : ErrStatusSent(o)
    \/ \E o \in Objs : ErrUpdDone(o)
    \/ \E o \in Objs : IdleUpdDone(o)
    \/ \E o \in Objs : NotifyDone(o)
    \/ \E o \in Objs : WaitUpdDone(o)
    \/ \E o \in Objs : WaitReturn(o)

SpecMgr == InitMgr /\ [][NextMgr]_vars

\* ------------------------------------------- the Permission Gate of one turn
\* One Session as createSession("a", ..., options) leaves it, with the options
\* that decide whether the gate is consulted
GateOptions == {[skipPermissions |-> FALSE, allowedTools |-> {}],
                [skipPermissions |-> TRUE, allowedTools |-> {}],
                [skipPermissions |-> FALSE, allowedTools |-> {"Bash"}]}

InitGate ==
    /\ config \in {c \in Configs : c.maxConcurrentSessions = 1 /\ c.notifyOnCompletion}
    /\ lim = [msgs |-> GateMaxMsgs, perms |-> GateMaxPerms, handles |-> {"h1"},
              clicks |-> GateMaxClicks]
    /\ \E opt \in GateOptions :
          sess = [o \in Objs |->
                    IF o = 1
                    THEN [NewSession("a", NoHandle) EXCEPT
                             !.skipPermissions = opt.skipPermissions,
                             !.allowedTools = opt.allowedTools]
                    ELSE NoSession]
    /\ store = [n \in Names |-> IF n = "a" THEN EntryFor(1, NoHandle) ELSE NoEntry]
    /\ perms = [p \in PermIds |-> NoPerm]
    /\ sessions = [n \in Names |-> IF n = "a" THEN 1 ELSE NoObj]
    /\ channelMap = [n \in Names |-> IF n = "a" THEN 1 ELSE NoChan]
    /\ reverseChannelMap = [c \in ChanIds |-> IF c = 1 THEN "a" ELSE NoName]
    /\ guild = [c \in ChanIds |-> IF c = 1 THEN ChannelName("a") ELSE NoName]
    /\ pendingPermissions = {}
    /\ reminders = {}
    /\ clicks = [p \in PermIds |-> "none"]
    /\ calls = [c \in Calls |-> NoCall]
    /\ abortRun = [o \in Objs |-> 0]
    /\ dropped = 0
    /\ listed = NotListed
    /\ chunker = NoChunking
    /\ singleTurn = NoTurn
    /\ unauthorized = 0

NextGate ==
    \/ \E o \in Objs : Start(o)
    \/ \E o \in Objs : SendMessage(o)
    \/ \E o \in Objs : StartResume(o)
    \/ \E o \in Objs : LoopIssue(o)
    \/ \E o \in Objs, h \in Handles : TurnInit(o, h)
    \/ \E o \in Objs : TurnReturn(o)
    \/ \E o \in Objs : IdleUpdDone(o)
    \/ \E o \in Objs : NotifyDone(o)
    \/ \E o \in Objs : WaitUpdDone(o)
    \/ \E o \in Objs : WaitReturn(o)
    \/ \E o \in Objs, t \in Tools : ToolBypass(o, t)
    \/ \E o \in Objs, t \in Tools : PermCall(o, t)
    \/ \E p \in PermIds : PermSend(p)
    \/ \E p \in PermIds : PermPosted(p)
    \/ \E p \in PermIds : PermRegistered(p)
    \/ \E p \in PermIds, a \in {"allow", "deny", "allowAll"} : Button(p, a)
    \/ \E p \in PermIds, a \in {"allow", "deny", "allowAll"} : ButtonUnknown(p, a)
    \/ \E p \in PermIds : ButtonResolve(p)
    \/ \E p \in PermIds : PermResume(p)
    \/ \E p \in PermIds : PermReturn(p)
    \/ \E p \in PermIds : ReminderFire(p)

SpecGate == InitGate /\ [][NextGate]_vars

\* ------------------------------------------------- chunkMessage on its own
\* chunkMessage is a pure function: it is called with a text and a maximum
\* length while nothing else runs
ChunkCalledWith(texts) ==
    /\ config \in {c \in Configs : /\ c.maxConcurrentSessions = 1 /\ c.notifyOnPermission
                                   /\ ~c.autoApproveReadOnly /\ ~c.notifyOnCompletion}
    /\ lim = [msgs |-> 0, perms |-> 0, handles |-> {}, clicks |-> 0]
    /\ sess = [o \in Objs |-> NoSession]
    /\ perms = [p \in PermIds |-> NoPerm]
    /\ sessions = [n \in Names |-> NoObj]
    /\ store = [n \in Names |-> NoEntry]
    /\ channelMap = [n \in Names |-> NoChan]
    /\ reverseChannelMap = [c \in ChanIds |-> NoName]
    /\ guild = [c \in ChanIds |-> NoName]
    /\ pendingPermissions = {}
    /\ reminders = {}
    /\ clicks = [p \in PermIds |-> "none"]
    /\ calls = [c \in Calls |-> NoCall]
    /\ abortRun = [o \in Objs |-> 0]
    /\ dropped = 0
    /\ listed = NotListed
    /\ singleTurn = NoTurn
    /\ unauthorized = 0
    /\ \E text \in texts, maxLength \in 1..ChunkMaxLen :
          chunker = [NoChunking EXCEPT !.pc = "call", !.text = text,
                                       !.maxLength = maxLength]

InitChunk == ChunkCalledWith(Texts)

NextChunk ==
    \/ ChunkEnter
    \/ ChunkIterate

SpecChunk == InitChunk /\ [][NextChunk]_vars

\* chunkMessage runs synchronously: once called, its loop keeps iterating
InitChunkLive == ChunkCalledWith(ShortTexts)

SpecChunkLive == InitChunkLive /\ [][NextChunk]_vars /\ WF_vars(NextChunk)

\* --------------------------------------------------- one turn's event stream
\* runSingleTurn consumes the records of one query() and sends to the channel
\* of its Session.  config.verbosity is below verbose (no stream events are
\* requested, session.ts:205-207), the channel of the Session is mapped and
\* fetched (discord-adapter.ts:432-446), and config.messageChunkSize is
\* MessageChunkSize
MessageChunkSize == 2
MaxBlocks == 2
MaxAssistant == 2

TurnTexts == {<<Letter>>, <<Space>>, <<Letter, Space, Letter>>}
TextBlock(t) == [type |-> "text", text |-> t, name |-> "none"]
ToolUseBlock == [type |-> "tool_use", text |-> <<>>, name |-> "Bash"]
Blocks == {TextBlock(t) : t \in TurnTexts} \cup {ToolUseBlock}
AssistantMessages ==
    {[type |-> "assistant", content |-> c] :
        c \in UNION {[1..n -> Blocks] : n \in 1..MaxBlocks}}
ResultMessage == [type |-> "result", content |-> <<>>]

\* What query() can yield: assistant records, closed by the result record
\* unless the stream ends early
Streams ==
    {a \o r : a \in UNION {[1..n -> AssistantMessages] : n \in 0..MaxAssistant},
              r \in {<<>>, <<ResultMessage>>}}

\* What the channel received: kind and body, and for the text of a
\* bridge.sendMessage call the number of the call, the position of the chunk
\* in it and which of the appended characters (first..last) the call carries;
\* for a notice or a summary, last is the number of characters appended
\* before it
Sending(kind, body, t) ==
    [kind |-> kind, body |-> body,
     call |-> IF kind = "message" THEN t.call ELSE 0,
     k |-> IF kind = "message" THEN t.k + 1 ELSE 0,
     first |-> IF kind = "message" THEN t.appended - Len(t.messageBuffer) + 1
                                   ELSE t.appended + 1,
     last |-> t.appended]

OutsideTurn ==
    UNCHANGED <<config, lim, sess, perms, sessions, store, channelMap,
                reverseChannelMap, guild, pendingPermissions, reminders, clicks,
                calls, abortRun, dropped, listed, unauthorized>>

\* session.ts:89-92  atLeast("normal")
AtLeastNormal(t) == t.verbosity \in {"normal", "verbose"}

\* discord-adapter.ts:214-218  bridge.sendMessage(id, messageBuffer) is
\* awaited: the channel is fetched and chunkMessage called
CallSendMessage(ret) ==
    /\ singleTurn' = [singleTurn EXCEPT !.pc = "chunking", !.ret = ret,
                                        !.call = @ + 1, !.k = 0]
    /\ chunker' = [NoChunking EXCEPT !.pc = "call", !.text = singleTurn.messageBuffer,
                                     !.maxLength = MessageChunkSize]

\* session.ts:354-360  the tool-use notice after the flush, if it is shown
AfterFlush(t) ==
    IF AtLeastNormal(t) THEN [t EXCEPT !.pc = "notice"]
    ELSE [t EXCEPT !.pc = "content", !.content = Tail(@)]

\* session.ts:218, 336-339, 375-381, 437-442  the next record of the stream
\* is taken, or the stream has ended
NextRecord ==
    /\ singleTurn.pc = "next"
    /\ IF singleTurn.stream = <<>>
       THEN IF NotBlank(singleTurn.messageBuffer)
            THEN CallSendMessage("returned")
            ELSE /\ singleTurn' = [singleTurn EXCEPT !.pc = "returned"]
                 /\ UNCHANGED chunker
       ELSE LET message == Head(singleTurn.stream)
                taken == [singleTurn EXCEPT !.stream = Tail(@)]
            IN IF message.type = "assistant"
               THEN /\ singleTurn' = [taken EXCEPT !.pc = "content",
                                                   !.content = message.content]
                    /\ UNCHANGED chunker
               ELSE IF NotBlank(singleTurn.messageBuffer)
                    THEN /\ singleTurn' = [taken EXCEPT !.pc = "chunking", !.ret = "summary",
                                                        !.call = @ + 1, !.k = 0]
                         /\ chunker' = [NoChunking EXCEPT
                                           !.pc = "call", !.text = singleTurn.messageBuffer,
                                           !.maxLength = MessageChunkSize]
                    ELSE /\ singleTurn' = [taken EXCEPT !.pc = "summary"]
                         /\ UNCHANGED chunker
    /\ OutsideTurn

\* session.ts:341-360  the next block of the assistant record: text is
\* appended to the buffer, a tool_use block flushes a buffer that is not blank
ContentBlock ==
    /\ singleTurn.pc = "content"
    /\ singleTurn.content # <<>>
    /\ LET block == Head(singleTurn.content) IN
       IF block.type = "text"
       THEN /\ singleTurn' = [singleTurn EXCEPT
                                 !.content = Tail(@),
                                 !.messageBuffer = @ \o block.text,
                                 !.appended = @ + Len(block.text)]
            /\ UNCHANGED chunker
       ELSE IF NotBlank(singleTurn.messageBuffer)
            THEN CallSendMessage("notice")
            ELSE /\ singleTurn' = AfterFlush(singleTurn)
                 /\ UNCHANGED chunker
    /\ OutsideTurn

\* session.ts:363-372  the record is processed: the buffer is sent if it is
\* not blank and streamDebounceMs have passed since lastSendTime (0 before
\* the first such send of the turn)
ContentEnd(elapsed) ==
    /\ singleTurn.pc = "content"
    /\ singleTurn.content = <<>>
    /\ singleTurn.lastSendTime = 0 => elapsed
    /\ IF NotBlank(singleTurn.messageBuffer) /\ elapsed
       THEN CallSendMessage("debounced")
       ELSE /\ singleTurn' = [singleTurn EXCEPT !.pc = "next"]
            /\ UNCHANGED chunker
    /\ OutsideTurn

\* session.ts:351-352, 369-371, 378-379, 441  bridge.sendMessage returned
SendMessageReturned(t) ==
    CASE t.ret = "notice" -> AfterFlush([t EXCEPT !.messageBuffer = <<>>])
      [] t.ret = "debounced" -> [t EXCEPT !.pc = "next", !.messageBuffer = <<>>,
                                          !.lastSendTime = 1]
      [] t.ret = "summary" -> [t EXCEPT !.pc = "summary", !.messageBuffer = <<>>]
      [] OTHER -> [t EXCEPT !.pc = "returned"]

\* discord-adapter.ts:218-221  chunkMessage returned: the first chunk is
\* handed to channel.send, or there is none
ChunksReady ==
    /\ singleTurn.pc = "chunking"
    /\ chunker.pc = "returned"
    /\ LET chunks == [i \in 1..Len(chunker.result) |-> chunker.result[i].s] IN
       singleTurn' = IF chunks = <<>> THEN SendMessageReturned(singleTurn)
                     ELSE [singleTurn EXCEPT !.pc = "sending", !.chunks = chunks]
    /\ chunker' = NoChunking
    /\ OutsideTurn

\* discord-adapter.ts:219-221  the awaited channel.send(chunk) completed: the
\* next chunk is handed over, or sendMessage returns
ChunkSent ==
    /\ singleTurn.pc = "sending"
    /\ LET arrived == [singleTurn EXCEPT
                          !.sent = Append(@, Sending("message", Head(singleTurn.chunks),
                                                     singleTurn)),
                          !.chunks = Tail(@), !.k = @ + 1]
       IN singleTurn' = IF arrived.chunks = <<>> THEN SendMessageReturned(arrived)
                        ELSE arrived
    /\ UNCHANGED chunker
    /\ OutsideTurn

\* session.ts:356-360, discord-adapter.ts:277-292  the awaited sendToolUse
\* completed
NoticeSent ==
    /\ singleTurn.pc = "notice"
    /\ singleTurn' = [singleTurn EXCEPT
                         !.sent = Append(@, Sending("tool", Head(singleTurn.content).name,
                                                    singleTurn)),
                         !.content = Tail(@), !.pc = "content"]
    /\ UNCHANGED chunker
    /\ OutsideTurn

\* session.ts:382-433, discord-adapter.ts:224-238  the awaited
\* sendStatus(id, "idle", detail) of the result record completed
SummarySent ==
    /\ singleTurn.pc = "summary"
    /\ singleTurn' = [singleTurn EXCEPT
                         !.sent = Append(@, Sending("status", "idle", singleTurn)),
                         !.pc = "next"]
    /\ UNCHANGED chunker
    /\ OutsideTurn

InitTurn ==
    /\ config \in {c \in Configs : /\ c.maxConcurrentSessions = 1 /\ c.notifyOnPermission
                                   /\ ~c.autoApproveReadOnly /\ ~c.notifyOnCompletion}
    /\ lim = [msgs |-> 0, perms |-> 0, handles |-> {}, clicks |-> 0]
    /\ sess = [o \in Objs |-> NoSession]
    /\ perms = [p \in PermIds |-> NoPerm]
    /\ sessions = [n \in Names |-> NoObj]
    /\ store = [n \in Names |-> NoEntry]
    /\ channelMap = [n \in Names |-> NoChan]
    /\ reverseChannelMap = [c \in ChanIds |-> NoName]
    /\ guild = [c \in ChanIds |-> NoName]
    /\ pendingPermissions = {}
    /\ reminders = {}
    /\ clicks = [p \in PermIds |-> "none"]
    /\ calls = [c \in Calls |-> NoCall]
    /\ abortRun = [o \in Objs |-> 0]
    /\ dropped = 0
    /\ listed = NotListed
    /\ chunker = NoChunking
    /\ unauthorized = 0
    /\ \E stream \in Streams, verbosity \in {"minimal", "normal"} :
          singleTurn = [NoTurn EXCEPT !.pc = "next", !.stream = stream,
                                      !.verbosity = verbosity]

NextTurn ==
    \/ NextRecord
    \/ ContentBlock
    \/ \E elapsed \in BOOLEAN : ContentEnd(elapsed)
    \/ ChunkEnter
    \/ ChunkIterate
    \/ ChunksReady
    \/ ChunkSent
    \/ NoticeSent
    \/ SummarySent

SpecTurn == InitTurn /\ [][NextTurn]_vars

\* ------------------------------------------------------- who may interact
\* The gateway hands the adapter the messages and interactions of every
\* member of the guild; DISCORD_USER_ID stands for the configured user id
\* (config.ts:26) and "other" for every other, human, user
DISCORD_USER_ID == "owner"
Users == {DISCORD_USER_ID, "other"}
MaxUnauthorized == 1

\* A click on a button of request p, and the commands /session end and
\* /session list (index.ts:374-386)
Interactions ==
    {[kind |-> "button", p |-> p, action |-> a, name |-> "none"] :
        p \in PermIds, a \in {"allow", "deny", "allowAll"}}
    \cup {[kind |-> "command", p |-> 0, action |-> "end", name |-> "a"],
          [kind |-> "command", p |-> 0, action |-> "list", name |-> "none"]}

\* discord-adapter.ts:113-116, 450-455  the handler returns: the message is
\* logged, the interaction answered "not authorized"
Rejected ==
    /\ unauthorized < MaxUnauthorized
    /\ unauthorized' = unauthorized + 1
    /\ abortRun' = [o \in Objs |-> 0]
    /\ listed' = NotListed
    /\ UNCHANGED <<config, lim, dropped, chunker, singleTurn, sess, store, sessions,
                   bridgeVars, permVars, calls>>

MessageCreateUnchecked(user, ch) ==
    /\ guild[ch] \notin {NoName, Deleted}
    /\ reverseChannelMap[ch] # NoName
    /\ sessions[reverseChannelMap[ch]] # NoObj
    /\ SentCount + dropped < lim.msgs
    /\ IF user # DISCORD_USER_ID
       THEN unauthorized < MaxUnauthorized /\ unauthorized' = unauthorized + 1
       ELSE UNCHANGED unauthorized
    /\ sess' = [sess EXCEPT ![sessions[reverseChannelMap[ch]]] =
                   SendMessageEffect(@, MsgText(Len(@.sent) + 1))]
    /\ abortRun' = [o \in Objs |-> 0]
    /\ listed' = NotListed
    /\ UNCHANGED <<config, lim, dropped, chunker, singleTurn, store, sessions,
                   bridgeVars, permVars, calls>>

\* discord-adapter.ts:109-132  the MessageCreate handler, for a message of a
\* user that is not a bot in the guild channel ch
MessageCreate(user, ch) ==
    /\ guild[ch] \notin {NoName, Deleted}
    /\ IF user # DISCORD_USER_ID
       THEN Rejected
       ELSE InboundMessage(ch) \/ InboundDropped(ch)

\* discord-adapter.ts:448-468, index.ts:366-386  handleInteraction, for a
\* click on a button that is shown or a command
HandleInteraction(user, i) ==
    /\ i.kind = "button" => ButtonsShown(i.p)
    /\ IF user # DISCORD_USER_ID
       THEN Rejected
       ELSE CASE i.kind = "button" -> Button(i.p, i.action) \/ ButtonUnknown(i.p, i.action)
              [] i.action = "end" -> EndSessionCall(i.name)
              [] OTHER -> ListSessionsCall

\* The state createSession("a", ...) leaves at session-manager.ts:102: the
\* channel bound, the entry stored, the Session registered
InitAuth ==
    /\ config \in {c \in Configs : /\ c.maxConcurrentSessions = 1 /\ ~c.notifyOnPermission
                                   /\ ~c.autoApproveReadOnly /\ ~c.notifyOnCompletion}
    /\ lim = [msgs |-> 1, perms |-> 1, handles |-> {"h1"}, clicks |-> 2]
    /\ sess = [o \in Objs |-> IF o = 1 THEN NewSession("a", NoHandle) ELSE NoSession]
    /\ store = [n \in Names |-> IF n = "a" THEN EntryFor(1, NoHandle) ELSE NoEntry]
    /\ perms = [p \in PermIds |-> NoPerm]
    /\ sessions = [n \in Names |-> IF n = "a" THEN 1 ELSE NoObj]
    /\ channelMap = [n \in Names |-> IF n = "a" THEN 1 ELSE NoChan]
    /\ reverseChannelMap = [c \in ChanIds |-> IF c = 1 THEN "a" ELSE NoName]
    /\ guild = [c \in ChanIds |-> IF c = 1 THEN ChannelName("a") ELSE NoName]
    /\ pendingPermissions = {}
    /\ reminders = {}
    /\ clicks = [p \in PermIds |-> "none"]
    /\ calls = [c \in Calls |-> NoCall]
    /\ abortRun = [o \in Objs |-> 0]
    /\ dropped = 0
    /\ listed = NotListed
    /\ chunker = NoChunking
    /\ singleTurn = NoTurn
    /\ unauthorized = 0

NextAuth ==
    \/ Start(1)
    \/ \E user \in Users, ch \in ChanIds : MessageCreate(user, ch)
    \/ \E user \in Users, i \in Interactions : HandleInteraction(user, i)
    \/ \E c \in Calls : EndStatusSent(c)
    \/ \E c \in Calls : ChannelDestroyed(c)
    \/ \E o \in Objs : StartResume(o)
    \/ \E o \in Objs : LoopIssue(o)
    \/ \E o \in Objs, h \in Handles : TurnInit(o, h)
    \/ \E o \in Objs : TurnReturn(o)
    \/ \E o \in Objs : IdleUpdDone(o)
    \/ \E o \in Objs : WaitUpdDone(o)
    \/ \E o \in Objs : WaitReturn(o)
    \/ PermCall(1, "Bash")
    \/ \E p \in PermIds : PermSend(p)
    \/ \E p \in PermIds : PermPosted(p)
    \/ \E p \in PermIds : ButtonResolve(p)
    \/ \E p \in PermIds : PermResume(p)
    \/ \E p \in PermIds : PermReturn(p)

SpecAuth == InitAuth /\ [][NextAuth]_vars

\* ================================================================== claims
\* C1: in every reachable state the number of live Sessions in the in-memory
\* registry is at most the configured maxConcurrentSessions.
C1_LiveWithinCapacity == LiveCount <= config.maxConcurrentSessions

\* C2: a createSession call entered while the live count is at the configured
\* maximum is rejected with the capacity error and changes no Session, no
\* registry entry, no channel binding and no channel.
C2_CreateAtCapacityRejected ==
    [][\A c \in Calls :
          (calls[c].op = "none" /\ calls'[c].op = "create"
             /\ LiveCount >= config.maxConcurrentSessions)
          => /\ calls'[c].pc = "rejected"
             /\ UNCHANGED <<sess, sessions, store, channelMap, reverseChannelMap, guild>>]_vars

C2_Witness ==
    \E c \in Calls : /\ calls[c].op = "create" /\ calls[c].pc = "rejected"
                     /\ LiveCount = config.maxConcurrentSessions

\* C3: a resumeSession call entered while the live count is at the configured
\* maximum is rejected with the capacity error and creates no channel, no
\* registry entry and no Session.
C3_ResumeAtCapacityRejected ==
    [][\A c \in Calls :
          (calls[c].op = "none" /\ calls'[c].op = "resume"
             /\ LiveCount >= config.maxConcurrentSessions)
          => /\ calls'[c].pc = "rejected"
             /\ UNCHANGED <<sess, sessions, store, channelMap, reverseChannelMap, guild>>]_vars

\* The prompts of the turns issued so far, in order
IssuedPrompts(s) == [i \in 1..Len(s.issued) |-> s.issued[i].prompt]

\* The prompt obtained but not yet issued as a turn
PendingPrompt(s) ==
    IF s.pc \in {"start_upd", "loop_upd"} THEN <<s.currentPrompt>>
    ELSE IF s.pc = "wait_msg" THEN s.waitValue
    ELSE <<>>

\* A started Session that was neither aborted nor failed
Healthy(s) ==
    /\ s.pc \notin {"none", "new", "err_status", "err_upd", "done"}
    /\ s.abortController = "live"

\* C4: for a started Session that is neither aborted nor failed, the prompts of
\* the turns issued, then the prompt obtained and not yet issued, then the
\* queue, are exactly the initial prompt followed by the messages sent, in the
\* order they were sent: nothing is dropped, duplicated or reordered.
C4_FifoOrder ==
    \A o \in Objs :
        Healthy(sess[o]) =>
            IssuedPrompts(sess[o]) \o PendingPrompt(sess[o]) \o sess[o].messageQueue
                = <<InitialPrompt>> \o sess[o].sent

\* Two messages consumed in order, the first sent while a turn was running
C4_Witness ==
    \E o \in Objs :
        /\ Healthy(sess[o])
        /\ IssuedPrompts(sess[o]) = <<InitialPrompt, MsgText(1), MsgText(2)>>

\* C5: a Session started once never has two turns in execution, and a
\* sendMessage arriving while a turn executes only appends to the queue: it
\* issues no turn.
C5_OneTurnAtATime ==
    [][\A o \in Objs :
          /\ sess'[o].running <= 1
          /\ (sess[o].running = 1 /\ sess'[o].sent # sess[o].sent)
             => /\ sess'[o].messageQueue =
                       Append(sess[o].messageQueue, sess'[o].sent[Len(sess'[o].sent)])
                /\ sess'[o].issued = sess[o].issued
                /\ sess'[o].running = 1]_vars

C5_Witness ==
    \E o \in Objs : /\ sess[o].pc = "turn" /\ sess[o].running = 1
                    /\ Len(sess[o].messageQueue) = 2

\* C6: abort() on a Session suspended in the operator-message wait resolves
\* the wait with the empty string, clears the resolver and leaves the queue
\* empty; no wait is ever resolved twice.
C6_AbortUnblocksOnce ==
    [][\A o \in Objs :
          /\ sess'[o].resolveCalls <= 1
          /\ (abortRun'[o] >= 1 /\ sess[o].messageResolver)
             => /\ sess'[o].waitValue = <<EmptyString>>
                /\ sess'[o].resolveCalls = 1
                /\ ~sess'[o].messageResolver
                /\ sess'[o].messageQueue = <<>>]_vars

C6_Witness ==
    \E o \in Objs : /\ abortRun[o] = 1 /\ sess[o].pc = "wait_msg"
                    /\ sess[o].waitValue = <<EmptyString>> /\ sess[o].resolveCalls = 1

\* C7: once abort() has been called on a started Session, no later step sets
\* its status to anything but idle.
C7_AbortForcesIdle ==
    [][\A o \in Objs : Aborted(o) => sess'[o].status = "idle"]_vars

\* C8: abort() releases every pending wait of the Session: directly after
\* abort() neither the operator-message wait nor a human-approval wait of the
\* Session is still suspended.
C8_AbortReleasesWaits ==
    [][\A o \in Objs :
          abortRun'[o] >= 1
          => /\ ~sess'[o].messageResolver
             /\ \A p \in PermIds :
                   perms'[p].obj = o =>
                       ~(perms'[p].pc = "perm_wait" /\ perms'[p].response = "none")]_vars

\* C9: a second abort() directly after a first leaves the status idle and the
\* cancellation signal, the resolver, the queue and the wait as the first
\* left them; it resolves no wait.
C9_AbortIdempotent ==
    [][\A o \in Objs :
          (abortRun[o] >= 1 /\ abortRun'[o] = 2)
          => /\ sess'[o].status = "idle" /\ sess[o].status = "idle"
             /\ sess'[o].abortController = sess[o].abortController
             /\ sess'[o].messageResolver = sess[o].messageResolver
             /\ ~sess'[o].messageResolver
             /\ sess'[o].messageQueue = sess[o].messageQueue
             /\ sess'[o].waitValue = sess[o].waitValue
             /\ sess'[o].resolveCalls = sess[o].resolveCalls]_vars

C9_Witness ==
    \E o \in Objs : /\ abortRun[o] = 2 /\ sess[o].pc = "wait_msg"
                    /\ sess[o].waitValue = <<EmptyString>>
                    /\ Len(sess[o].messageQueue) = 1

\* C10: no turn is issued to the Agent Service after abort() was called on a
\* started Session.
C10_NoTurnAfterAbort ==
    \A o \in Objs : \A i \in 1..Len(sess[o].issued) : ~sess[o].issued[i].aborted

\* C11: the remote-conversation handle of a Session is assigned at most once:
\* once it is set, no later step changes it.
C11_HandleAssignedOnce ==
    [][\A o \in Objs :
          sess[o].sdkSessionId # NoHandle
          => sess'[o].sdkSessionId = sess[o].sdkSessionId]_vars

\* C12: a turn issued while the Session holds a handle passes that handle as
\* the resume option; the first turn of a seeded Session passes the seed; and a
\* turn is issued without a resume option only as the first turn of a Session
\* that was not seeded.
C12_ResumeWhenHandleHeld ==
    [][\A o \in Objs :
          Len(sess'[o].issued) = Len(sess[o].issued) + 1
          => LET turn == sess'[o].issued[Len(sess'[o].issued)] IN
             /\ sess[o].sdkSessionId # NoHandle
                => turn.resume = sess[o].sdkSessionId
             /\ (Len(sess[o].issued) = 0 /\ sess[o].resumeSessionId # NoHandle)
                => turn.resume = sess[o].resumeSessionId
             /\ turn.resume = NoHandle
                => Len(sess[o].issued) = 0 /\ sess[o].resumeSessionId = NoHandle]_vars

\* A seeded Session whose second turn resumes the handle its first turn was
\* given, which is not the seed
C12_Witness ==
    \E o \in Objs :
        /\ sess[o].resumeSessionId = "h1"
        /\ Len(sess[o].issued) = 2
        /\ sess[o].issued[1].resume = "h1"
        /\ sess[o].issued[2].resume = "h2"

\* A handlePermission call is entered in this step as invocation p
Entered(p) == perms[p].pc = "none" /\ perms'[p].gate

\* The step of Entered(p) returned allow without suspending: no request to
\* the bridge, no status change
AllowedAtOnce(p) ==
    /\ perms'[p].pc = "done" /\ perms'[p].result = "allow" /\ ~perms'[p].asked
    /\ UNCHANGED <<sess, store, pendingPermissions, reminders>>

\* C13: an authorize call for a tool that is in the Session's sticky-approved
\* set returns allow at once: no approval request is sent, the call does not
\* suspend and the Session's status does not change.
C13_StickyAllowsAtOnce ==
    [][\A p \in PermIds :
          (Entered(p) /\ perms'[p].tool \in sess[perms'[p].obj].autoApprovedTools)
          => AllowedAtOnce(p)]_vars

\* "Allow All Bash" was clicked and a later call for Bash returned at once
C13_Witness ==
    \E p, q \in PermIds :
        /\ perms[p].tool = "Bash" /\ perms[p].response = "allowAll"
        /\ perms[q].tool = "Bash" /\ perms[q].gate /\ perms[q].obj = perms[p].obj
        /\ perms[q].pc = "done" /\ perms[q].result = "allow" /\ ~perms[q].asked

\* C14: with autoApproveReadOnly enabled an authorize call for a read-only
\* tool returns allow at once (no suspension, no request, no status change);
\* with it disabled, a call for a tool that is not sticky-approved suspends
\* with status waiting and the approval request is issued next.
C14_ReadOnlyPolicy ==
    [][\A p \in PermIds :
          /\ (Entered(p) /\ config.autoApproveReadOnly
                /\ perms'[p].tool \in ReadOnlyTools)
             => AllowedAtOnce(p)
          /\ (Entered(p) /\ ~config.autoApproveReadOnly
                /\ perms'[p].tool \notin sess[perms'[p].obj].autoApprovedTools)
             => /\ perms'[p].pc = "perm_upd1"
                /\ sess'[perms'[p].obj].status = "waiting"
          /\ (perms[p].pc = "perm_upd1" /\ perms'[p].pc # "perm_upd1"
                /\ ~config.autoApproveReadOnly)
             => perms'[p].pc = "perm_sending" /\ perms'[p].asked]_vars

C14_Witness ==
    \E p \in PermIds :
        /\ config.autoApproveReadOnly
        /\ perms[p].tool = "Read" /\ perms[p].gate
        /\ "Read" \notin sess[perms[p].obj].autoApprovedTools
        /\ perms[p].pc = "done" /\ perms[p].result = "allow" /\ ~perms[p].asked

\* A human decision that lets invocation p proceed has arrived
HumanAllowed(p) == perms[p].response \in {"allow", "allowAll"}

\* The tool of invocation p was granted "Allow All" earlier in its Session
StickyGranted(p) ==
    /\ perms'[p].tool \in sess[perms'[p].obj].autoApprovedTools
    /\ \E q \in PermIds : /\ perms[q].obj = perms'[p].obj
                            /\ perms[q].tool = perms'[p].tool
                            /\ perms[q].response = "allowAll"

C16_UnansweredStaysPending ==
    [][\A p \in PermIds :
          (perms[p].pc = "perm_wait" /\ perms[p].response = "none"
             /\ clicks[p] = "none" /\ clicks'[p] = "none")
          => /\ perms'[p].pc = "perm_wait" /\ perms'[p].response = "none"
             /\ perms'[p].result = "none"
             /\ p \in pendingPermissions']_vars

\* The reminder was sent and the request is still pending
C16_Witness ==
    \E p \in PermIds :
        /\ perms[p].reminded = 1 /\ perms[p].pc = "perm_wait"
        /\ perms[p].response = "none" /\ p \in pendingPermissions

\* C17: whenever an authorize call of a Session is suspended waiting for a
\* human decision, the Session's status is waiting.
C17_WaitingWhileSuspended ==
    \A p \in PermIds :
        (perms[p].pc = "perm_wait" /\ perms[p].response = "none")
        => sess[perms[p].obj].status = "waiting"

\* C18: no reminder is sent for a request after a decision on it has arrived
\* (a click was accepted), and at most one reminder is sent per request.
C18_ReminderCancelledOnDecision ==
    [][\A p \in PermIds :
          perms'[p].reminded > perms[p].reminded
          => /\ clicks[p] = "none" /\ perms[p].response = "none"
             /\ perms'[p].reminded <= 1]_vars

\* C19: the decision taken for a request is the one of the first click on
\* it; no later click is taken.
C19_FirstClickDecides ==
    \A p \in PermIds :
        /\ clicks[p] # "none" => clicks[p] = perms[p].clicked[1]
        /\ perms[p].response # "none" => perms[p].response = perms[p].clicked[1]

\* An endSession call on a live Session returns in this step
EndCompletes(c) ==
    /\ calls[c].op = "end" /\ calls[c].obj # NoObj
    /\ calls[c].pc # "returned" /\ calls'[c].pc = "returned"

\* A createSession or resumeSession call stores the entry of n in this step
EntryStoredByCall(n) ==
    \E c \in Calls : /\ calls'[c].op \in {"create", "resume"} /\ calls'[c].name = n
                      /\ calls[c].pc # "status" /\ calls'[c].pc = "status"

\* C20: when endSession(id) completes for a live Session, the Session is
\* aborted, id is not in the registry, id has no channel mapping and no
\* persisted entry; and no callback of a Session creates a persisted entry:
\* only createSession and resumeSession do.
C20_EndSessionTearsDown ==
    [][/\ \A c \in Calls :
             EndCompletes(c)
             => /\ sess'[calls[c].obj].abortController = "aborted"
                /\ sessions'[calls[c].name] = NoObj
                /\ channelMap'[calls[c].name] = NoChan
                /\ ~store'[calls[c].name].present
       /\ \A n \in Names :
             (~store[n].present /\ store'[n].present) => EntryStoredByCall(n)]_vars

\* Call c is an endSession call for an id that was not in the registry, and
\* this step is one of its steps (its entry or a continuation)
EndOfUnknownSteps(c) ==
    /\ calls'[c].op = "end" /\ calls'[c].obj = NoObj
    /\ calls'[c] # calls[c]

\* C21: an endSession call for an id that is not in the in-memory registry
\* completes without raising, and none of its steps changes a live Session,
\* the registry, the persisted entry of another id or the channel binding
\* (in either direction) of another id.
C21_EndUnknownTouchesNothingElse ==
    [][\A c \in Calls :
          EndOfUnknownSteps(c)
          => /\ calls'[c].pc # "rejected"
             /\ sess' = sess /\ sessions' = sessions
             /\ \A m \in Names \ {calls'[c].name} :
                   /\ store'[m] = store[m]
                   /\ channelMap'[m] = channelMap[m]
             /\ \A ch \in ChanIds :
                   reverseChannelMap[ch] \notin {NoName, calls'[c].name}
                   => reverseChannelMap'[ch] = reverseChannelMap[ch]]_vars

\* The texts a Session object holds or has held: accepted by sendMessage,
\* queued, handed to a pending wait, or issued as a turn's prompt
TextsOf(s) ==
    {s.sent[i] : i \in 1..Len(s.sent)} \cup {s.messageQueue[i] : i \in 1..Len(s.messageQueue)}
    \cup {s.waitValue[i] : i \in 1..Len(s.waitValue)}
    \cup {s.issued[i].prompt : i \in 1..Len(s.issued)} \cup {s.currentPrompt}

\* C24: an inbound operator message whose channel is bound to no id or to an
\* id without a live Session is dropped: the step changes no Session, registry
\* entry, persisted entry, channel binding, approval request or call, and the
\* text never reaches any Session, also not one created later under that id.
C24_UnroutableIsDropped ==
    /\ [](\A o \in Objs : \A k \in 1..dropped : DroppedText(k) \notin TextsOf(sess[o]))
    /\ [][dropped' # dropped
          => UNCHANGED <<sess, sessions, store, channelMap, reverseChannelMap, guild,
                         perms, pendingPermissions, reminders, calls>>]_vars

\* A message in the restored channel of "A" was dropped, and the only call
\* since then created a Session "A" that has issued its first turn
C24_Witness ==
    /\ dropped = 1
    /\ calls[1].op = "create" /\ calls[1].name = "A" /\ calls[2].op = "none"
    /\ sessions["A"] # NoObj /\ sess[sessions["A"]].issued # <<>>

\* This step is an operation on Session object a: a step of an endSession
\* call that found it, a direct abort(), a sendMessage, or a button click or
\* decision for one of its approval requests
EndStepOn(a) ==
    \E c \in Calls : calls'[c] # calls[c] /\ calls'[c].op = "end" /\ calls'[c].obj = a
AbortOn(a) == abortRun'[a] # 0
MessageTo(a) == Len(sess'[a].sent) > Len(sess[a].sent)
DecisionFor(a) ==
    \E p \in PermIds : /\ perms[p].obj = a
                        /\ \/ perms'[p].clicked # perms[p].clicked
                           \/ perms'[p].response # perms[p].response
                           \/ clicks'[p] # clicks[p]
OperationOn(a) == EndStepOn(a) \/ AbortOn(a) \/ MessageTo(a) \/ DecisionFor(a)

\* C22: for Session objects A and B with different ids, no step of
\* endSession(A), no abort of A, no sendMessage to A and no approval decision
\* for A changes B's status, message queue, pending message wait, sticky set
\* or persisted entry.
C22_SessionsIsolated ==
    [][\A a, b \in Objs :
          (/\ sess[a].pc # "none" /\ sess[b].pc # "none" /\ sess[a].id # sess[b].id
           /\ OperationOn(a))
          => /\ sess'[b].status = sess[b].status
             /\ sess'[b].messageQueue = sess[b].messageQueue
             /\ sess'[b].messageResolver = sess[b].messageResolver
             /\ sess'[b].waitValue = sess[b].waitValue
             /\ sess'[b].autoApprovedTools = sess[b].autoApprovedTools
             /\ store'[sess[b].id] = store[sess[b].id]]_vars

\* "a" was ended while blocked and after "b" was granted a sticky approval,
\* and "b" blocks waiting for a message with "Bash" in its sticky set
C22_Witness ==
    /\ \E c \in Calls : calls[c].op = "end" /\ calls[c].obj = 1 /\ calls[c].pc = "returned"
    /\ sess[1].issued # <<>>
    /\ sess[2].messageResolver /\ sess[2].autoApprovedTools = {"Bash"}
    /\ store["b"].present

\* C23: listSessions returns one entry per persisted entry; an entry whose id
\* has a live Session carries that Session's current status and sticky tools,
\* whatever the persisted values; every other entry is returned as persisted;
\* and the call changes no Session.
C23_ListOverlaysLive ==
    [][listed' # NotListed
       => /\ \A n \in Names :
                /\ listed'[n].present = store[n].present
                /\ (store[n].present /\ sessions[n] # NoObj)
                   => /\ listed'[n].status = sess[sessions[n]].status
                      /\ listed'[n].autoApprovedTools = sess[sessions[n]].autoApprovedTools
                /\ (store[n].present /\ sessions[n] = NoObj) => listed'[n] = store[n]
          /\ sess' = sess /\ sessions' = sessions]_vars

\* A list that returned live "b" with a status and sticky tools its stored
\* entry did not have, and ended "a" as persisted
C23_Witness ==
    /\ listed # NotListed
    /\ sessions["b"] # NoObj /\ listed["b"].autoApprovedTools = {"Bash"}
    /\ listed["b"].status = "waiting"
    /\ sessions["a"] = NoObj /\ listed["a"].present

\* chunkMessage has returned
Returned == chunker.pc = "returned"

\* C28: every chunk chunkMessage returns is at most maxLength long, for every
\* text and every maxLength >= 1, also a chunk that got a closing marker, one
\* that starts with a reopening marker and one split at a newline or space at
\* index maxLength.
C28_ChunksWithinMaxLength ==
    Returned => \A i \in 1..Len(chunker.result) :
                   Len(chunker.result[i].s) <= chunker.maxLength

\* C29: no chunk chunkMessage returns is empty or whitespace-only, for every
\* text, also the empty one and a whitespace-only one of at most maxLength.
C29_NoBlankChunk ==
    Returned => \A i \in 1..Len(chunker.result) : NotBlank(chunker.result[i].s)

\* The characters of chunk c that are not an inserted reopening marker at
\* its start or an appended closing marker at its end
Payload(c) == SubSeq(c.s, c.ins + 1, Len(c.s) - c.app)

RECURSIVE Joined(_)
Joined(chunks) == IF chunks = <<>> THEN <<>>
                  ELSE Payload(Head(chunks)) \o Joined(Tail(chunks))

\* C30: the chunks chunkMessage returns, joined in order after the appended
\* closing markers and the inserted reopening markers are removed, are the
\* text it was called with.
C30_RoundTrip == Returned => Joined(chunker.result) = chunker.text

\* The chunk the next iteration cuts off, and whether the cut is inside an
\* open block: the chunk holds an odd number of block markers
NextChunkCut == Slice(chunker.remaining, 0, SplitIndex(chunker.remaining, chunker.maxLength))
CutsInsideBlock ==
    /\ chunker.pc = "loop" /\ Len(chunker.remaining) > chunker.maxLength
    /\ FencesFrom(NextChunkCut, 0) % 2 # 0

\* The language tag of the block that is open at the cut: the word characters
\* that follow its opening marker in the text being chunked
OpenTag ==
    LangTag(SliceFrom(chunker.remaining,
                      LastIndexOf(NextChunkCut, Fence, Len(NextChunkCut)) + 3))

\* s ends with / begins with t
EndsWith(s, t) == Len(s) >= Len(t) /\ SubSeq(s, Len(s) - Len(t) + 1, Len(s)) = t
BeginsWith(s, t) == Len(s) >= Len(t) /\ SubSeq(s, 1, Len(t)) = t

\* C31: when chunkMessage cuts inside an open block, the chunk before the cut
\* ends with a closing marker and the text that follows begins with a
\* reopening marker that carries the language tag of the open block; and when
\* the text holds an even number of block markers, so does every chunk
\* returned.
C31_BlocksClosedAndReopened ==
    /\ [][(CutsInsideBlock /\ chunker' # chunker)
          => /\ EndsWith(chunker'.chunks[Len(chunker'.chunks)].s, <<Newline>> \o Fence)
             /\ BeginsWith(chunker'.remaining, Fence \o OpenTag \o <<Newline>>)]_vars
    /\ [](Returned /\ FencesFrom(chunker.text, 0) % 2 = 0
           => \A i \in 1..Len(chunker.result) :
                 FencesFrom(chunker.result[i].s, 0) % 2 = 0)

\* C36: chunkMessage terminates: for every text and every maxLength >= 1 the
\* call returns, also when a reopening marker is as long as or longer than
\* the text the cut consumed.
C36_ChunkingTerminates == <>Returned

\* C37: a pending message wait and a queued message never coexist: whenever
\* a Session's message resolver is set, its message queue is empty.
C37_NoQueuedMessageWhileWaiting ==
    \A o \in Objs : sess[o].messageResolver => sess[o].messageQueue = <<>>

\* The Session took a queued message at one wait and now blocks in a later
\* wait, its resolver set, after the operator's second message
C37_Witness ==
    /\ sess[1].messageResolver /\ sess[1].pc = "wait_msg"
    /\ Len(sess[1].sent) = 2 /\ Len(sess[1].issued) = 3

\* endSession was called for the id Session object o was registered under,
\* and found o in the registry
Ended(o) == \E c \in Calls : calls[c].op = "end" /\ calls[c].obj = o

\* C38: once endSession(id) has been called, the Session object that was
\* registered under id issues no turn to the Agent Service, also when the
\* call ran while createSession(id) was suspended between registering the
\* Session and calling start().
C38_NoTurnAfterEnd ==
    [][\A o \in Objs : Ended(o) => sess'[o].issued = sess[o].issued]_vars

\* C39: every live Session has a persisted entry and a channel binding: each
\* id in the registry is in the store and in the channel map, also while an
\* endSession of that id is suspended and a createSession of the same name
\* completes.
C39_LiveHasEntryAndChannel ==
    \A n \in Names : sessions[n] # NoObj
                      => store[n].present /\ channelMap[n] # NoChan

\* C34: bound channels are one-to-one with Sessions: no two live Sessions
\* with different ids are bound to the same channel.
C34_ChannelsOneToOne ==
    \A n, m \in Names :
       (n # m /\ sessions[n] # NoObj /\ sessions[m] # NoObj /\ channelMap[n] # NoChan)
       => channelMap[n] # channelMap[m]

\* Session object o is the live Session of its id and the id has a persisted
\* entry, after the step
LiveWithEntry(o) == sessions'[sess[o].id] = o /\ store'[sess[o].id].present

\* C35: the persisted entry mirrors the live Session on every state change:
\* after a status transition the entry's status is the Session's status,
\* and after a tool is added to the sticky set the entry's sticky approvals
\* contain it.
C35_EntryMirrorsSession ==
    [][\A o \in Objs :
          LiveWithEntry(o)
          => /\ sess'[o].status # sess[o].status
                => store'[sess[o].id].status = sess'[o].status
             /\ sess'[o].autoApprovedTools # sess[o].autoApprovedTools
                => sess'[o].autoApprovedTools \subseteq store'[sess[o].id].autoApprovedTools]_vars

\* An endSession call that found Session object o has returned
EndReturned(o) ==
    \E c \in Calls : calls[c].op = "end" /\ calls[c].obj = o /\ calls[c].pc = "returned"

\* C40: a Session that has been ended never alters the state of a Session
\* created later under the same name: no step the ended Session takes after
\* endSession returned changes the later Session's persisted status, its
\* persisted remote-conversation handle or its sticky set.
C40_EndedLeavesSuccessorAlone ==
    [][\A o, q \in Objs :
          (/\ EndReturned(o) /\ sessions[sess[o].id] = q /\ q # o
           /\ sess'[o] # sess[o])
          => /\ store'[sess[o].id].status = store[sess[o].id].status
             /\ store'[sess[o].id].sdkSessionId = store[sess[o].id].sdkSessionId
             /\ sess'[q].autoApprovedTools = sess[q].autoApprovedTools]_vars

\* queue q extends queue r: nothing was taken from r
Extends(q, r) == Len(q) >= Len(r) /\ SubSeq(q, 1, Len(r)) = r

\* C25: when a turn fails and the cancellation signal is not set, the status
\* becomes error and the failure is reported through the bridge; from then on
\* the Session issues no turn and consumes no message.
C25_FailureEndsLoop ==
    [][\A o \in Objs :
          /\ (sess[o].pc = "turn" /\ sess'[o].caught # "none" /\ ~Aborted(o))
             => /\ sess'[o].status = "error"
                /\ sess'[o].pc = "err_status"
                /\ sess'[o].caught = "failure"
          /\ sess[o].caught = "failure"
             => /\ sess'[o].issued = sess[o].issued
                /\ sess'[o].running = 0
                /\ sess'[o].pc \in {"err_status", "err_upd", "done"}
                /\ Extends(sess'[o].messageQueue, sess[o].messageQueue)
                /\ ~sess'[o].messageResolver
                /\ sess'[o].waitValue = sess[o].waitValue]_vars

\* A message sent after the failure sits in the queue of the ended Session
C25_Witness ==
    \E o \in Objs :
        /\ sess[o].caught = "failure" /\ sess[o].pc = "done"
        /\ Len(sess[o].issued) = 1 /\ sess[o].sent = <<MsgText(1)>>
        /\ sess[o].messageQueue = <<MsgText(1)>>

\* C26: a failure thrown out of turn execution while the cancellation signal
\* is set is not an error: start() ends with the status idle and without
\* sending an error status, and the status never becomes error afterwards.
C26_CancellationIsNoError ==
    [][\A o \in Objs :
          /\ (sess[o].pc = "turn" /\ sess'[o].caught # "none" /\ Aborted(o))
             => /\ sess'[o].status = "idle"
                /\ sess'[o].pc = "done"
                /\ sess'[o].caught = "cancelled"
          /\ sess[o].caught = "cancelled"
             => /\ sess'[o].status # "error"
                /\ sess'[o].pc = "done"]_vars

C26_Witness ==
    \E o \in Objs :
        /\ sess[o].caught = "cancelled" /\ sess[o].pc = "done"
        /\ sess[o].status = "idle" /\ Len(sess[o].issued) = 2

\* C27: in a Session on which the cancellation signal is not set, the loop
\* positions carry their statuses: working when a turn is about to be issued,
\* idle after the turn, waiting while blocked for the next message; working is
\* entered again only with a message obtained.
C27_StatusOrder ==
    [][\A o \in Objs :
          sess'[o].abortController = "live"
          => /\ sess'[o].pc \in {"start_upd", "loop_upd"} => sess'[o].status = "working"
             /\ sess'[o].pc \in {"idle_upd", "notify"} => sess'[o].status = "idle"
             /\ sess'[o].pc \in {"wait_upd", "wait_msg"} => sess'[o].status = "waiting"
             /\ (sess[o].pc = "turn" /\ sess'[o].pc # "turn" /\ sess'[o].caught = "none")
                => sess'[o].pc = "idle_upd"
             /\ (sess[o].pc \in {"idle_upd", "notify"} /\ sess'[o].pc # sess[o].pc)
                => sess'[o].pc \in {"notify", "wait_upd"}
             /\ (sess[o].pc = "wait_msg" /\ sess'[o].pc # "wait_msg")
                => /\ sess[o].waitValue # <<>>
                   /\ sess'[o].pc = "loop_upd"
                   /\ sess'[o].currentPrompt = sess[o].waitValue[1]]_vars

\* The second iteration of a Session that was never cancelled is blocked for
\* its next message
C27_Witness ==
    \E o \in Objs :
        /\ sess[o].abortController = "live" /\ sess[o].pc = "wait_msg"
        /\ sess[o].messageResolver /\ sess[o].status = "waiting"
        /\ Len(sess[o].issued) = 2

\* The chunks of one bridge.sendMessage call arrive one after the other in
\* chunk order, and the calls in the order they were made
ChunksInOrder ==
    \A i \in 1..Len(singleTurn.sent) :
       LET e == singleTurn.sent[i] IN
       e.kind = "message" =>
          \/ e.k = 1 /\ \A j \in 1..(i - 1) : singleTurn.sent[j].call < e.call
          \/ /\ e.k > 1 /\ i > 1
             /\ singleTurn.sent[i - 1].kind = "message"
             /\ singleTurn.sent[i - 1].call = e.call
             /\ singleTurn.sent[i - 1].k = e.k - 1

\* No text that was appended to the buffer before a tool_use block arrives
\* after the notice of that block
TextBeforeNotice ==
    \A i, j \in 1..Len(singleTurn.sent) :
       (i < j /\ singleTurn.sent[i].kind = "tool" /\ singleTurn.sent[j].kind = "message")
       => singleTurn.sent[j].first > singleTurn.sent[i].last

\* No text of the turn arrives after the summary of its result record
TextBeforeSummary ==
    \A i, j \in 1..Len(singleTurn.sent) :
       (i < j /\ singleTurn.sent[i].kind = "status")
       => singleTurn.sent[j].kind # "message"

\* C32: what one Session sends arrives in program order: the chunks of one
\* sendMessage in chunk order, the text buffered before a tool_use block
\* before the notice of that block, and the text of a turn before the status
\* summary of its result record.
C32_OutboundInProgramOrder ==
    ChunksInOrder /\ TextBeforeNotice /\ TextBeforeSummary

\* C33: a message or an interaction of a user other than DISCORD_USER_ID
\* reaches no Session, resolves no pending approval and invokes no command:
\* the step that handles it changes no Session, no approval request, no
\* stored resolver, no manager call and no registry or store entry.
C33_OnlyAuthorizedUserActs ==
    [][unauthorized' # unauthorized
       => UNCHANGED <<sess, perms, pendingPermissions, reminders, clicks, calls,
                      sessions, store, bridgeVars>>]_vars

\* A user other than DISCORD_USER_ID has acted while the Session waits for
\* the operator's message, or while an approval request shows its buttons
C33_Witness ==
    /\ unauthorized > 0
    /\ \/ \E o \in Objs : sess[o].messageResolver
       \/ \E p \in PermIds : p \in pendingPermissions /\ ButtonsShown(p)

====
